---- MODULE Spec2Model ----
(***************************************************************************)
(* A model of the skip-list key-value store with per-key TTL of            *)
(* practical_applications/skiplist_kv_store.go: the skip-list engine       *)
(* (SkipList), the store built on it (SkiplistKVStore), the lazy expiry    *)
(* goroutines started by Get and the background ttlCleaner.                *)
(***************************************************************************)
EXTENDS Integers, Sequences, FiniteSets, TLC

(***************************************************************************)
(* Bounds of the model.                                                    *)
(***************************************************************************)
\* largest value of the model's clock (time.Now() counted in ticks)
MaxTime == 2
\* number of caller operations that change the state over one behaviour
MaxOps == 3
\* number of calls on the engine over one behaviour of SpecEngine
MaxCalls == 5
\* number of calls on the engine over one behaviour of SpecCalls
MaxEngineCalls == 4
\* in SpecLocks: number of operations the callers invoke, and largest value of the clock
MaxInvokes == 2
MaxLockTime == 1

(***************************************************************************)
(* Program constants.                                                      *)
(***************************************************************************)
MaxLevel == 32

\* the nil pointer (and the nil byte slice), and the pointer to the head sentinel
NIL == <<>>
HEAD == <<"head">>

(***************************************************************************)
(* 64-bit unsigned arithmetic.  A uint64 is kept as its eight bytes, least *)
(* significant first, so that no intermediate value leaves TLC's integers. *)
(***************************************************************************)
RECURSIVE XorByte(_, _)
XorByte(a, b) ==
    IF a = 0 THEN b
    ELSE IF b = 0 THEN a
    ELSE (((a % 2) + (b % 2)) % 2) + 2 * XorByte(a \div 2, b \div 2)

\* 14695981039346656037 = 0xCBF29CE484222325
FNVOffset == <<37, 35, 34, 132, 228, 156, 242, 203>>
\* 1099511628211 = 0x00000100000001B3
FNVPrime == <<179, 1, 0, 0, 0, 1, 0, 0>>

RECURSIVE SumProducts(_, _, _, _)
\* sum of a[i] * b[k + 1 - i] for i in 1..j: the column of weight 256^(k-1)
SumProducts(a, b, k, j) ==
    IF j = 0 THEN 0 ELSE (a[j] * b[k + 1 - j]) + SumProducts(a, b, k, j - 1)

RECURSIVE MulLimbs(_, _, _, _)
MulLimbs(a, b, k, carry) ==
    IF k > 8 THEN <<>>
    ELSE LET s == SumProducts(a, b, k, k) + carry
         IN  <<(s % 256)>> \o MulLimbs(a, b, k + 1, (s \div 256))

\* a * b on uint64: the product modulo 2^64
MulU64(a, b) == MulLimbs(a, b, 1, 0)

\* hash ^= uint64(b): the byte meets the low eight bits
XorU64(h, b) == [h EXCEPT ![1] = XorByte(h[1], b)]

RECURSIVE FNVLoop(_, _)
FNVLoop(hash, data) ==
    IF data = <<>> THEN hash
    ELSE FNVLoop(MulU64(XorU64(hash, Head(data)), FNVPrime), Tail(data))

hashBytes(data) == FNVLoop(FNVOffset, data)

(***************************************************************************)
(* float64(uint64): round to nearest, ties to even, on 53 significant      *)
(* bits.  The result is the integer the float64 holds, kept as nine bytes, *)
(* most significant first (the rounding may carry into 2^64).              *)
(***************************************************************************)
Pow2(n) == IF n = 0 THEN 1 ELSE IF n = 1 THEN 2 ELSE IF n = 2 THEN 4
           ELSE IF n = 3 THEN 8 ELSE IF n = 4 THEN 16 ELSE IF n = 5 THEN 32
           ELSE IF n = 6 THEN 64 ELSE 128

\* bit j (0 = least significant) of the uint64 h
BitOf(h, j) == ((h[(j \div 8) + 1]) \div Pow2((j % 8))) % 2

\* the 72 bits of h, most significant first (position 8 is the 2^64 bit)
BitsOf(h) == [i \in 1..72 |-> IF i <= 8 THEN 0 ELSE BitOf(h, 72 - i)]

RECURSIVE AddOneAt(_, _)
\* bits + 2^(72 - p)
AddOneAt(bits, p) ==
    IF p = 0 THEN bits
    ELSE IF bits[p] = 0 THEN [bits EXCEPT ![p] = 1]
    ELSE AddOneAt([bits EXCEPT ![p] = 0], p - 1)

RoundBits(bits) ==
    LET ones == {i \in 1..72 : bits[i] = 1}
    IN  IF ones = {} THEN bits
        ELSE LET lead == CHOOSE i \in ones : \A j \in ones : i <= j
                 last == lead + 52
             IN  IF last >= 72 THEN bits
                 ELSE LET guard  == bits[last + 1]
                          sticky == \E j \in (last + 2)..72 : bits[j] = 1
                          kept   == [i \in 1..72 |-> IF i <= last THEN bits[i] ELSE 0]
                          up     == guard = 1 /\ (sticky \/ bits[last] = 1)
                      IN  IF up THEN AddOneAt(kept, last) ELSE kept

\* the nine bytes, most significant first, of 72 bits
PackBits(bits) ==
    [n \in 1..9 |->
        LET b(j) == bits[8 * (n - 1) + j]
        IN  128 * b(1) + 64 * b(2) + 32 * b(3) + 16 * b(4)
            + 8 * b(5) + 4 * b(6) + 2 * b(7) + b(8)]

Float64OfU64(h) == PackBits(RoundBits(BitsOf(h)))

RECURSIVE SeqLess(_, _, _)
\* lexicographic order of two sequences from position i on; a proper prefix is less
SeqLess(a, b, i) ==
    IF i > Len(b) THEN FALSE
    ELSE IF i > Len(a) THEN TRUE
    ELSE IF a[i] # b[i] THEN a[i] < b[i]
    ELSE SeqLess(a, b, i + 1)

\* a < b on the float64 values of two scores
ScoreLess(a, b) == SeqLess(a, b, 1)

\* a faulty bytes.Compare that takes the greater key for the lesser
BytesCompareReversed(a, b) == IF a = b THEN 0 ELSE IF SeqLess(a, b, 1) THEN 1 ELSE 0 - 1

\* bytes.Compare(a, b)
BytesCompare(a, b) == IF a = b THEN 0 ELSE IF SeqLess(a, b, 1) THEN 0 - 1 ELSE 1

(***************************************************************************)
(* The skip-list engine.  A pointer to an Element is the element's         *)
(* (Score, Key) pair, which no two elements of one list share; the head    *)
(* sentinel's pointer is HEAD and the nil pointer is NIL.  Next[i + 1] is  *)
(* the code's Next[i].  An element the list no longer reaches is dropped   *)
(* from elems (it is garbage).                                             *)
(***************************************************************************)
NewElement(key, value, score, level) ==
    [Key |-> key, Value |-> value, Score |-> score,
     Next |-> [i \in 1..level |-> NIL], Prev |-> NIL]

NewSkipList ==
    [elems  |-> (HEAD :> NewElement(<<>>, NIL, 0 - 1, MaxLevel)),
     tail   |-> NIL,
     length |-> 0,
     level  |-> 1]

RECURSIVE randomLevelUnbounded(_, _)
\* a faulty draw whose loop has no test of level < MaxLevel
randomLevelUnbounded(level, coins) ==
    IF coins # <<>> /\ Head(coins)
    THEN randomLevelUnbounded(level + 1, Tail(coins))
    ELSE level

RECURSIVE randomLevel(_, _)
\* coins: the successive outcomes of randSrc.Float64() < Probability
randomLevel(level, coins) ==
    IF level < MaxLevel /\ coins # <<>> /\ Head(coins)
    THEN randomLevel(level + 1, Tail(coins))
    ELSE level

\* a faulty loop condition that compares the scores alone
PrecedesNoTie(e, key, score) == ScoreLess(e.Score, score)

\* the loop condition of the three walks: x.Next[i] sorts before (score, key)
Precedes(e, key, score) ==
    \/ ScoreLess(e.Score, score)
    \/ (e.Score = score /\ BytesCompare(e.Key, key) < 0)

RECURSIVE Forward(_, _, _, _, _)
\* the inner loop at level i: advance x while its successor precedes the target
Forward(elems, x, i, key, score) ==
    LET n == elems[x].Next[i + 1]
    IN  IF n # NIL /\ Precedes(elems[n], key, score)
        THEN Forward(elems, n, i, key, score)
        ELSE x

RECURSIVE Descend(_, _, _, _, _, _)
\* the outer loop from level i down to 0, recording update[i]; x is never nil: the
\* walk of a level ends on an element of the list (or on the head) before the
\* walk of the level below begins
Descend(elems, x, i, update, key, score) ==
    IF i < 0 THEN [x |-> x, update |-> update]
    ELSE LET y == Forward(elems, x, i, key, score)
         IN  CASE y \in DOMAIN elems ->
                  Descend(elems, y, i - 1, [update EXCEPT ![i + 1] = y], key, score)

Locate(sl, key, score) ==
    Descend(sl.elems, HEAD, sl.level - 1, [i \in 1..MaxLevel |-> NIL], key, score)

\* a faulty linking loop that stops after level 0
SpliceBottom(elems, update, new, i, level) ==
    IF i >= 1 THEN elems
    ELSE LET u  == update[i + 1]
             e1 == [elems EXCEPT ![new].Next[i + 1] = elems[u].Next[i + 1]]
         IN  [e1 EXCEPT ![u].Next[i + 1] = new]

RECURSIVE Splice(_, _, _, _, _)
\* for i := 0; i < level; i++ { new.Next[i] = update[i].Next[i]; update[i].Next[i] = new }
Splice(elems, update, new, i, level) ==
    IF i >= level THEN elems
    ELSE LET u  == update[i + 1]
             e1 == [elems EXCEPT ![new].Next[i + 1] = elems[u].Next[i + 1]]
             e2 == [e1 EXCEPT ![u].Next[i + 1] = new]
         IN  Splice(e2, update, new, i + 1, level)

\* a faulty Insert that counts the update of an element as a new element
InsertCountsUpdate(sl, key, value, score, drawn) ==
    LET loc == Locate(sl, key, score)
        nx  == sl.elems[loc.x].Next[1]
    IN  IF nx # NIL /\ sl.elems[nx].Score = score /\ sl.elems[nx].Key = key
        THEN [list |-> [sl EXCEPT !.elems[nx].Value = value, !.length = @ + 1],
              elem |-> nx]
        ELSE LET level  == drawn
                 update == [i \in 1..MaxLevel |->
                               IF i > sl.level /\ i <= level THEN HEAD ELSE loc.update[i]]
                 top    == IF level > sl.level THEN level ELSE sl.level
                 new    == <<score, key>>
                 e0     == (new :> NewElement(key, value, score, level)) @@ sl.elems
                 e1     == Splice(e0, update, new, 0, level)
                 e2     == IF update[1] # HEAD
                           THEN [e1 EXCEPT ![new].Prev = update[1]]
                           ELSE e1
                 succ   == e2[new].Next[1]
                 e3     == IF succ # NIL THEN [e2 EXCEPT ![succ].Prev = new] ELSE e2
             IN  [list |-> [elems  |-> e3,
                            tail   |-> IF succ # NIL THEN sl.tail ELSE new,
                            length |-> sl.length + 1,
                            level  |-> top],
                  elem |-> new]

\* SkipList.Insert with the level randomLevel draws: the list after, and the element returned
Insert(sl, key, value, score, drawn) ==
    LET loc == Locate(sl, key, score)
        nx  == sl.elems[loc.x].Next[1]
    IN  IF nx # NIL /\ sl.elems[nx].Score = score /\ sl.elems[nx].Key = key
        THEN [list |-> [sl EXCEPT !.elems[nx].Value = value], elem |-> nx]
        ELSE LET level  == drawn
                 update == [i \in 1..MaxLevel |->
                               IF i > sl.level /\ i <= level THEN HEAD ELSE loc.update[i]]
                 top    == IF level > sl.level THEN level ELSE sl.level
                 new    == <<score, key>>
                 e0     == (new :> NewElement(key, value, score, level)) @@ sl.elems
                 e1     == Splice(e0, update, new, 0, level)
                 e2     == IF update[1] # HEAD
                           THEN [e1 EXCEPT ![new].Prev = update[1]]
                           ELSE e1
                 succ   == e2[new].Next[1]
                 e3     == IF succ # NIL THEN [e2 EXCEPT ![succ].Prev = new] ELSE e2
             IN  [list |-> [elems  |-> e3,
                            tail   |-> IF succ # NIL THEN sl.tail ELSE new,
                            length |-> sl.length + 1,
                            level  |-> top],
                  elem |-> new]

RECURSIVE UnspliceCut(_, _, _, _, _)
\* a faulty unlinking loop that sets update[i].Next[i] = nil
UnspliceCut(elems, update, x, i, level) ==
    IF i >= level THEN elems
    ELSE LET u == update[i + 1]
         IN  IF elems[u].Next[i + 1] # x THEN elems
             ELSE UnspliceCut([elems EXCEPT ![u].Next[i + 1] = NIL],
                              update, x, i + 1, level)

RECURSIVE Unsplice(_, _, _, _, _)
\* for i := 0; i < sl.level; i++ { if update[i].Next[i] != x { break }; update[i].Next[i] = x.Next[i] }
Unsplice(elems, update, x, i, level) ==
    IF i >= level THEN elems
    ELSE LET u == update[i + 1]
         IN  IF elems[u].Next[i + 1] # x THEN elems
             ELSE Unsplice([elems EXCEPT ![u].Next[i + 1] = elems[x].Next[i + 1]],
                           update, x, i + 1, level)

\* a faulty Delete that leaves sl.level as it is
ShrinkNever(elems, level) == level

RECURSIVE Shrink(_, _)
\* for sl.level > 1 && sl.head.Next[sl.level-1] == nil { sl.level-- }
Shrink(elems, level) ==
    IF level > 1 /\ elems[HEAD].Next[level] = NIL
    THEN Shrink(elems, level - 1)
    ELSE level

\* a faulty Delete that leaves sl.tail as it is
RemovedKeepsTail(sl, update, x) ==
    LET e1   == Unsplice(sl.elems, update, x, 0, sl.level)
        succ == e1[x].Next[1]
        e2   == IF succ # NIL THEN [e1 EXCEPT ![succ].Prev = e1[x].Prev] ELSE e1
        e3   == [r \in (DOMAIN e2) \ {x} |-> e2[r]]
    IN  [list |-> [elems  |-> e3,
                   tail   |-> sl.tail,
                   length |-> sl.length - 1,
                   level  |-> Shrink(e3, sl.level)],
         ok |-> TRUE]

\* a faulty Delete that leaves x.Next[0].Prev as it is
RemovedKeepsPrev(sl, update, x) ==
    LET e1   == Unsplice(sl.elems, update, x, 0, sl.level)
        succ == e1[x].Next[1]
        e3   == [r \in (DOMAIN e1) \ {x} |-> e1[r]]
    IN  [list |-> [elems  |-> e3,
                   tail   |-> IF succ # NIL THEN sl.tail ELSE e1[x].Prev,
                   length |-> sl.length - 1,
                   level  |-> Shrink(e3, sl.level)],
         ok |-> TRUE]

\* a faulty Delete that takes two from sl.length
RemovedCountsTwice(sl, update, x) ==
    LET e1   == Unsplice(sl.elems, update, x, 0, sl.level)
        succ == e1[x].Next[1]
        e2   == IF succ # NIL THEN [e1 EXCEPT ![succ].Prev = e1[x].Prev] ELSE e1
        e3   == [r \in (DOMAIN e2) \ {x} |-> e2[r]]
    IN  [list |-> [elems  |-> e3,
                   tail   |-> IF succ # NIL THEN sl.tail ELSE e1[x].Prev,
                   length |-> sl.length - 2,
                   level  |-> Shrink(e3, sl.level)],
         ok |-> TRUE]

\* SkipList.Delete from the unlinking of the element x on: the list after, and true
Removed(sl, update, x) ==
    LET e1   == Unsplice(sl.elems, update, x, 0, sl.level)
        succ == e1[x].Next[1]
        e2   == IF succ # NIL THEN [e1 EXCEPT ![succ].Prev = e1[x].Prev] ELSE e1
        e3   == [r \in (DOMAIN e2) \ {x} |-> e2[r]]
    IN  [list |-> [elems  |-> e3,
                   tail   |-> IF succ # NIL THEN sl.tail ELSE e1[x].Prev,
                   length |-> sl.length - 1,
                   level  |-> Shrink(e3, sl.level)],
         ok |-> TRUE]

\* a faulty Delete that tests x == nil alone, and not x.Score and x.Key
DeleteNoKeyCheck(sl, key, score) ==
    LET loc == Locate(sl, key, score)
        x   == sl.elems[loc.x].Next[1]
    IN  IF x = NIL THEN [list |-> sl, ok |-> FALSE] ELSE Removed(sl, loc.update, x)

\* a faulty Delete that leaves out sl.length--
DeleteNoCount(sl, key, score) ==
    LET loc == Locate(sl, key, score)
        x   == sl.elems[loc.x].Next[1]
    IN  IF x = NIL \/ sl.elems[x].Score # score \/ sl.elems[x].Key # key
        THEN [list |-> sl, ok |-> FALSE]
        ELSE [Removed(sl, loc.update, x) EXCEPT !.list.length = sl.length]

\* a faulty Delete that returns true whether or not it found the key
DeleteReportsTrue(sl, key, score) ==
    LET loc == Locate(sl, key, score)
        x   == sl.elems[loc.x].Next[1]
    IN  IF x = NIL \/ sl.elems[x].Score # score \/ sl.elems[x].Key # key
        THEN [list |-> sl, ok |-> TRUE]
        ELSE Removed(sl, loc.update, x)

\* SkipList.Delete: the list after, and the result returned
Delete(sl, key, score) ==
    LET loc == Locate(sl, key, score)
        x   == sl.elems[loc.x].Next[1]
    IN  IF x = NIL \/ sl.elems[x].Score # score \/ sl.elems[x].Key # key
        THEN [list |-> sl, ok |-> FALSE]
        ELSE Removed(sl, loc.update, x)

\* a faulty Search that tests x.Key alone, and not x.Score
SearchByKey(sl, key, score) ==
    LET loc == Locate(sl, key, score)
        x   == sl.elems[loc.x].Next[1]
    IN  IF x # NIL /\ sl.elems[x].Key = key THEN x ELSE NIL

\* SkipList.Search: the element found, or NIL
Search(sl, key, score) ==
    LET loc == Locate(sl, key, score)
        x   == sl.elems[loc.x].Next[1]
    IN  IF x # NIL /\ sl.elems[x].Score = score /\ sl.elems[x].Key = key
        THEN x ELSE NIL

RECURSIVE ForwardScore(_, _, _, _)
\* the inner loop of Range at level i: advance x while x.Next[i].Score < minScore
ForwardScore(elems, x, i, minScore) ==
    LET n == elems[x].Next[i + 1]
    IN  IF n # NIL /\ ScoreLess(elems[n].Score, minScore)
        THEN ForwardScore(elems, n, i, minScore)
        ELSE x

RECURSIVE DescendScore(_, _, _, _)
\* the outer loop of Range from level i down to 0
DescendScore(elems, x, i, minScore) ==
    IF i < 0 THEN x
    ELSE LET y == ForwardScore(elems, x, i, minScore)
         IN  CASE y \in DOMAIN elems -> DescendScore(elems, y, i - 1, minScore)

\* a <= b on the float64 values of two scores
ScoreLeq(a, b) == a = b \/ ScoreLess(a, b)

RECURSIVE CollectOneMore(_, _, _, _, _)
\* a faulty loop of Range that breaks when len(result) > limit
CollectOneMore(elems, x, maxScore, limit, got) ==
    IF ~(x # NIL /\ ScoreLeq(elems[x].Score, maxScore)) THEN got
    ELSE LET r == Append(got, x)
         IN  IF limit > 0 /\ Len(r) > limit THEN r
             ELSE CollectOneMore(elems, elems[x].Next[1], maxScore, limit, r)

RECURSIVE Collect(_, _, _, _, _)
\* for x != nil && x.Score <= maxScore { append; if limit > 0 && len(result) >= limit { break }; x = x.Next[0] }
Collect(elems, x, maxScore, limit, got) ==
    IF ~(x # NIL /\ ScoreLeq(elems[x].Score, maxScore)) THEN got
    ELSE LET r == Append(got, x)
         IN  IF limit > 0 /\ Len(r) >= limit THEN r
             ELSE Collect(elems, elems[x].Next[1], maxScore, limit, r)

\* SkipList.Range: the elements returned, in the order of the result
Range(sl, minScore, maxScore, limit) ==
    LET x == DescendScore(sl.elems, HEAD, sl.level - 1, minScore)
    IN  Collect(sl.elems, sl.elems[x].Next[1], maxScore, limit, <<>>)

Length(sl) == sl.length
First(sl) == sl.elems[HEAD].Next[1]
Last(sl) == sl.tail

RECURSIVE Chain(_, _, _)
\* the elements met by following level-i forward links from x
Chain(elems, x, i) ==
    IF x = NIL THEN <<>> ELSE <<x>> \o Chain(elems, elems[x].Next[i + 1], i)

\* the level-0 chain from the head's successor: what a traversal from First() visits
Level0(sl) == Chain(sl.elems, First(sl), 0)

(***************************************************************************)
(* The store.  Threads: the callers, the ttlCleaner goroutine ("reaper")   *)
(* and the goroutine a lazy expiry starts ("lazy": Delete takes the store  *)
(* lock first, so of the goroutines started only one is past it at a time; *)
(* the others are counted in spawned).                                     *)
(***************************************************************************)
KeyA == <<97>>
KeyB == <<97, 98>>
AllKeys == {KeyA, KeyB}
Values == {"v1", "v2"}
Callers == {"c1", "c2"}
Threads == Callers \cup {"reaper", "lazy"}
\* the prefixes and limits callers pass to Scan
Prefixes == {<<>>, <<97>>, <<97, 98>>, <<98>>}
Limits == {1, 2}
\* the durations callers pass to SetWithTTL
Durations == {0, 1}
\* the outcomes of the coin flips of one randomLevel call: promotions, then a stop.
\* Locking, expiry and the TTL table never read an element's level: Spec, with time
\* and the ttlCleaner, draws level 1; SpecLevels and SpecDisjoint draw up to level 3.
Coins == {<<FALSE>>}
TallCoins == {<<FALSE>>, <<TRUE, FALSE>>, <<TRUE, TRUE, FALSE>>}

VARIABLES
    scores,    \* key -> float64(hashBytes(key)): the pure function, computed once
    data,      \* s.data: the skip list
    ttlData,   \* s.ttlData: key -> expiry instant
    mutex,     \* s.mutex: the thread holding it exclusively, or NoThread (a shared
               \* holder takes and releases it within one step)
    now,       \* what time.Now() returns
    pc,        \* per thread: where it is in its operation
    arg,       \* per thread: the arguments (and locals) of its operation
    spawned,   \* per key: goroutines `go s.Delete(key)` started and not yet past s.mutex.Lock()
    expired,   \* the ttlCleaner's expiredKeys still to delete
    last,      \* per key: the last caller write that returned (history)
    ops,       \* caller operations begun
    stopCh,    \* s.stopCh: "open" or "closed"
    locks,     \* s.mutex, s.data.mutex and s.ttlMutex: who holds and who waits
    prog       \* per thread: the lock and unlock calls (and what they guard) still
               \* to run of the operation it is in

vars == <<scores, data, ttlData, mutex, now, pc, arg, spawned, expired, last, ops, stopCh,
          locks, prog>>

\* score := float64(hashBytes(key))
Score(key) == scores[key]

NoArg == [key |-> NIL, value |-> "", ttl |-> 0, result |-> FALSE]
\* history of a key: op is the caller write that returned last ("busy" while one is
\* under way), with its value, the expiry it recorded, its duration and its result;
\* prev is the op before it, and closed tells that it began after Close()
NoWrite == [op |-> "none", value |-> "", expiry |-> 0, ttl |-> 0, ok |-> FALSE,
            prev |-> "none", closed |-> FALSE]

\* no thread
NoThread == ""
\* the three sync.RWMutex of a store: s.mutex, s.data.mutex and s.ttlMutex
LockNames == {"mutex", "data.mutex", "ttlMutex"}
\* a sync.RWMutex nobody holds: writer is the thread inside Lock()..Unlock(), readers
\* are the threads inside RLock()..RUnlock(), waiting are the threads blocked in Lock()
Free == [writer |-> NoThread, readers |-> {}, waiting |-> {}]
Unlocked == mutex = NoThread
\* the keys of the elements a level-0 traversal meets
Members(sl) == {sl.elems[Level0(sl)[i]].Key : i \in 1..Len(Level0(sl))}
\* a faulty delete that clears the map
WithoutAny(map, key) == <<>>
\* delete(map, key)
Without(map, key) == [k \in (DOMAIN map) \ {key} |-> map[k]]
\* a caller write on key begins: the history of key is open until it returns
Begin(t, key) ==
    IF t \in Callers
    THEN [last EXCEPT ![key] = [NoWrite EXCEPT !.op = "busy", !.prev = last[key].op,
                                            !.closed = (stopCh = "closed")]]
    ELSE last
\* a caller write on key returns
End(key, op, value, expiry, ttl, ok) ==
    [last EXCEPT ![key] = [op |-> op, value |-> value, expiry |-> expiry, ttl |-> ttl,
                           ok |-> ok, prev |-> last[key].prev,
                           closed |-> last[key].closed]]

Init ==
    /\ scores = [k \in AllKeys |-> Float64OfU64(hashBytes(k))]
    /\ data = NewSkipList
    /\ ttlData = <<>>
    /\ mutex = NoThread
    /\ now = 0
    /\ pc = [t \in Threads |-> "idle"]
    /\ arg = [t \in Threads |-> NoArg]
    /\ spawned = [k \in AllKeys |-> 0]
    /\ expired = {}
    /\ last = [k \in AllKeys |-> NoWrite]
    /\ ops = 0
    /\ stopCh = "open"
    /\ locks = [m \in LockNames |-> Free]
    /\ prog = [t \in Threads |-> <<>>]

\* time passes
Tick ==
    /\ now < MaxTime
    /\ now' = now + 1
    /\ UNCHANGED <<scores, stopCh, locks, prog, data, ttlData, mutex, pc, arg, spawned, expired, last, ops>>

\* Set, to the end of s.data.Insert
SetInsert(t, key, value, coins) ==
    /\ pc[t] = "idle" /\ ops < MaxOps /\ Unlocked
    /\ mutex' = t
    /\ data' = Insert(data, key, value, Score(key), randomLevel(1, coins)).list
    /\ pc' = [pc EXCEPT ![t] = "SetTTL"]
    /\ arg' = [arg EXCEPT ![t] = [NoArg EXCEPT !.key = key, !.value = value]]
    /\ last' = Begin(t, key)
    /\ ops' = ops + 1
    /\ UNCHANGED <<scores, stopCh, locks, prog, ttlData, now, spawned, expired>>

\* Set, from s.ttlMutex.Lock() to the return
SetTTL(t) ==
    /\ pc[t] = "SetTTL"
    /\ ttlData' = Without(ttlData, arg[t].key)
    /\ mutex' = NoThread
    /\ pc' = [pc EXCEPT ![t] = "idle"]
    /\ arg' = [arg EXCEPT ![t] = NoArg]
    /\ last' = End(arg[t].key, "Set", arg[t].value, 0, 0, TRUE)
    /\ UNCHANGED <<scores, stopCh, locks, prog, data, now, spawned, expired, ops>>

\* SetWithTTL, to the end of s.data.Insert
SetWithTTLInsert(t, key, value, ttl, coins) ==
    /\ pc[t] = "idle" /\ ops < MaxOps /\ Unlocked
    /\ mutex' = t
    /\ data' = Insert(data, key, value, Score(key), randomLevel(1, coins)).list
    /\ pc' = [pc EXCEPT ![t] = "SetWithTTLTTL"]
    /\ arg' = [arg EXCEPT ![t] = [NoArg EXCEPT !.key = key, !.value = value, !.ttl = ttl]]
    /\ last' = Begin(t, key)
    /\ ops' = ops + 1
    /\ UNCHANGED <<scores, stopCh, locks, prog, ttlData, now, spawned, expired>>

\* SetWithTTL, from s.ttlMutex.Lock() to the return
SetWithTTLTTL(t) ==
    /\ pc[t] = "SetWithTTLTTL"
    /\ ttlData' = (arg[t].key :> (now + arg[t].ttl)) @@ ttlData
    /\ mutex' = NoThread
    /\ pc' = [pc EXCEPT ![t] = "idle"]
    /\ arg' = [arg EXCEPT ![t] = NoArg]
    /\ last' = End(arg[t].key, "SetWithTTL", arg[t].value, now + arg[t].ttl,
                    arg[t].ttl, TRUE)
    /\ UNCHANGED <<scores, stopCh, locks, prog, data, now, spawned, expired, ops>>

\* Delete, to the end of s.data.Delete, for any thread
DeleteEngine(t, key) ==
    /\ pc[t] = "idle" /\ Unlocked
    /\ mutex' = t
    /\ \E d \in {Delete(data, key, Score(key))} :
           /\ data' = d.list
           /\ arg' = [arg EXCEPT ![t] = [NoArg EXCEPT !.key = key, !.result = d.ok]]
    /\ pc' = [pc EXCEPT ![t] = "DeleteTTL"]
    /\ last' = Begin(t, key)

\* a faulty Delete that leaves out delete(s.ttlData, string(key))
DeleteTTLKeep(t) ==
    /\ pc[t] = "DeleteTTL"
    /\ mutex' = NoThread
    /\ pc' = [pc EXCEPT ![t] = "idle"]
    /\ arg' = [arg EXCEPT ![t] = NoArg]
    /\ last' = IF t \in Callers
               THEN End(arg[t].key, "Delete", "", 0, 0, arg[t].result)
               ELSE last
    /\ UNCHANGED <<scores, stopCh, locks, prog, data, ttlData, now, spawned, expired, ops>>

\* Delete, from s.ttlMutex.Lock() to the return, for any thread
DeleteTTL(t) ==
    /\ pc[t] = "DeleteTTL"
    /\ ttlData' = Without(ttlData, arg[t].key)
    /\ mutex' = NoThread
    /\ pc' = [pc EXCEPT ![t] = "idle"]
    /\ arg' = [arg EXCEPT ![t] = NoArg]
    /\ last' = IF t \in Callers
               THEN End(arg[t].key, "Delete", "", 0, 0, arg[t].result)
               ELSE last
    /\ UNCHANGED <<scores, stopCh, locks, prog, data, now, spawned, expired, ops>>

\* a caller's Delete begins
CallerDelete(t, key) ==
    /\ ops < MaxOps
    /\ DeleteEngine(t, key)
    /\ ops' = ops + 1
    /\ UNCHANGED <<scores, stopCh, locks, prog, ttlData, now, spawned, expired>>

\* a goroutine started by `go s.Delete(key)` gets past s.mutex.Lock()
LazyDelete(key) ==
    /\ spawned[key] > 0
    /\ DeleteEngine("lazy", key)
    /\ spawned' = [spawned EXCEPT ![key] = @ - 1]
    /\ UNCHANGED <<scores, stopCh, locks, prog, ttlData, now, expired, ops>>

\* the test of Get: exists && time.Now().After(expiry)
GetExpired(key) == key \in DOMAIN ttlData /\ now > ttlData[key]

\* what Get returns when the test fails: the outcome of s.data.Search
GetFound(key) ==
    LET elem == Search(data, key, Score(key))
    IN  [found |-> elem # NIL,
         value |-> IF elem # NIL THEN data.elems[elem].Value ELSE ""]

\* what Get(key) returns in this state (err == nil is found)
GetResult(key) ==
    IF GetExpired(key) THEN [found |-> FALSE, value |-> ""] ELSE GetFound(key)

\* a faulty Get that calls s.Delete(key) itself on an expired entry
GetSync(t, key) ==
    /\ pc[t] = "idle" /\ Unlocked
    /\ IF GetExpired(key)
       THEN /\ ops < MaxOps
            /\ ops' = ops + 1
            /\ spawned' = [spawned EXCEPT ![key] = @ + 1]
            /\ data' = Delete(data, key, Score(key)).list
            /\ ttlData' = Without(ttlData, key)
       ELSE UNCHANGED <<ops, spawned, data, ttlData>>
    /\ UNCHANGED <<scores, stopCh, locks, prog, mutex, now, pc, arg, expired, last>>

\* a faulty Get that leaves out s.mutex.RLock()
GetNoLock(t, key) ==
    /\ pc[t] = "idle"
    /\ IF GetExpired(key)
       THEN /\ ops < MaxOps
            /\ ops' = ops + 1
            /\ spawned' = [spawned EXCEPT ![key] = @ + 1]
       ELSE UNCHANGED <<ops, spawned>>
    /\ UNCHANGED <<scores, stopCh, locks, prog, data, ttlData, mutex, now, pc, arg, expired, last>>


\* a faulty Get that serves an open store only
GetOpenOnly(t, key) ==
    /\ stopCh = "open"
    /\ pc[t] = "idle" /\ Unlocked
    /\ IF GetExpired(key)
       THEN /\ ops < MaxOps
            /\ ops' = ops + 1
            /\ spawned' = [spawned EXCEPT ![key] = @ + 1]
       ELSE UNCHANGED <<ops, spawned>>
    /\ UNCHANGED <<scores, stopCh, locks, prog, data, ttlData, mutex, now, pc, arg, expired, last>>

\* Get, under s.mutex.RLock(): on an expired entry it starts `go s.Delete(key)`
Get(t, key) ==
    /\ pc[t] = "idle" /\ Unlocked
    /\ IF GetExpired(key)
       THEN /\ ops < MaxOps
            /\ ops' = ops + 1
            /\ spawned' = [spawned EXCEPT ![key] = @ + 1]
       ELSE UNCHANGED <<ops, spawned>>
    /\ UNCHANGED <<scores, stopCh, locks, prog, data, ttlData, mutex, now, pc, arg, expired, last>>

\* a faulty GetTTL that tests remaining < 0
RemainingAtExpiry(ttl, key) ==
    IF key \notin DOMAIN ttl THEN [remaining |-> 0, present |-> FALSE]
    ELSE LET remaining == ttl[key] - now
         IN  IF remaining < 0 THEN [remaining |-> 0, present |-> FALSE]
             ELSE [remaining |-> remaining, present |-> TRUE]

\* the body of GetTTL on the table ttl: the remaining duration and whether a TTL is present
Remaining(ttl, key) ==
    IF key \notin DOMAIN ttl THEN [remaining |-> 0, present |-> FALSE]
    ELSE LET remaining == ttl[key] - now
         IN  IF remaining <= 0 THEN [remaining |-> 0, present |-> FALSE]
             ELSE [remaining |-> remaining, present |-> TRUE]

\* what GetTTL(key) returns in this state
GetTTLResult(key) == Remaining(ttlData, key)

\* GetTTL: under s.ttlMutex alone, whoever holds s.mutex
GetTTL(t, key) ==
    /\ pc[t] = "idle"
    /\ UNCHANGED vars

\* what Size() returns in this state
SizeResult == Length(data)

\* Size: s.data.Length() under s.mutex.RLock()
Size(t) ==
    /\ pc[t] = "idle" /\ Unlocked
    /\ UNCHANGED vars

\* a faulty test that takes an entry whose instant is now for live
LiveAtExpiry(key) == key \notin DOMAIN ttlData \/ now <= ttlData[key]

\* the test of Keys, SizeActive and Scan on an element: !exists || now.Before(expiry)
Live(key) == key \notin DOMAIN ttlData \/ now < ttlData[key]

\* what Keys() returns in this state: the live keys in the order of the traversal
KeysResult ==
    LET chain == Level0(data)
        keys  == [i \in 1..Len(chain) |-> data.elems[chain[i]].Key]
    IN  SelectSeq(keys, Live)

\* AllKeys: the traversal from s.data.First() under s.mutex.RLock()
Keys(t) ==
    /\ pc[t] = "idle" /\ Unlocked
    /\ UNCHANGED vars

RECURSIVE CountAll(_, _)
\* a faulty SizeActive loop that counts every element
CountAll(current, count) ==
    IF current = NIL THEN count
    ELSE CountAll(data.elems[current].Next[1], count + 1)

RECURSIVE CountLive(_, _)
\* the loop of SizeActive from the element current on
CountLive(current, count) ==
    IF current = NIL THEN count
    ELSE CountLive(data.elems[current].Next[1],
                   IF Live(data.elems[current].Key) THEN count + 1 ELSE count)

\* what SizeActive() returns in this state
SizeActiveResult == CountLive(First(data), 0)

\* SizeActive: the traversal from s.data.First() under s.mutex.RLock()
SizeActive(t) ==
    /\ pc[t] = "idle" /\ Unlocked
    /\ UNCHANGED vars

\* a faulty prefix test that looks for prefix at the end of s
HasSuffix(s, prefix) ==
    Len(prefix) <= Len(s) /\ SubSeq(s, Len(s) - Len(prefix) + 1, Len(s)) = prefix

\* bytes.HasPrefix(s, prefix)
HasPrefix(s, prefix) == Len(prefix) <= Len(s) /\ SubSeq(s, 1, Len(prefix)) = prefix

RECURSIVE ScanLoopOneMore(_, _, _, _, _)
\* a faulty Scan loop that goes on while count <= limit
ScanLoopOneMore(current, result, count, prefix, limit) ==
    IF ~(current # NIL /\ (limit <= 0 \/ count <= limit)) THEN result
    ELSE LET e   == data.elems[current]
             hit == HasPrefix(e.Key, prefix) /\ Live(e.Key)
         IN  ScanLoopOneMore(e.Next[1],
                             IF hit THEN (e.Key :> e.Value) @@ result ELSE result,
                             IF hit THEN count + 1 ELSE count,
                             prefix, limit)

RECURSIVE ScanLoop(_, _, _, _, _)
\* the loop of Scan from the element current on
ScanLoop(current, result, count, prefix, limit) ==
    IF ~(current # NIL /\ (limit <= 0 \/ count < limit)) THEN result
    ELSE LET e   == data.elems[current]
             hit == HasPrefix(e.Key, prefix) /\ Live(e.Key)
         IN  ScanLoop(e.Next[1],
                      IF hit THEN (e.Key :> e.Value) @@ result ELSE result,
                      IF hit THEN count + 1 ELSE count,
                      prefix, limit)

\* what Scan(prefix, limit) returns in this state: key -> value
ScanResult(prefix, limit) == ScanLoop(First(data), <<>>, 0, prefix, limit)

\* Scan: the traversal from s.data.First() under s.mutex.RLock()
Scan(t) ==
    /\ pc[t] = "idle" /\ Unlocked
    /\ UNCHANGED vars

\* cleanExpiredKeys, the scan of s.ttlData under s.ttlMutex.RLock()
ReaperScan ==
    /\ pc["reaper"] = "idle" /\ expired = {}
    /\ expired' = {k \in DOMAIN ttlData : ttlData[k] < now}
    /\ UNCHANGED <<scores, stopCh, locks, prog, data, ttlData, mutex, now, pc, arg, spawned, last, ops>>

\* a faulty cleanExpiredKeys that passes over an expired key without s.Delete
ReaperSkip(key) ==
    /\ key \in expired
    /\ expired' = expired \ {key}
    /\ UNCHANGED <<scores, stopCh, locks, prog, data, ttlData, mutex, now, pc, arg, spawned, last, ops>>

\* cleanExpiredKeys, s.Delete of one of the expired keys (a map is ranged over in any order)
ReaperDelete(key) ==
    /\ key \in expired
    /\ DeleteEngine("reaper", key)
    /\ expired' = expired \ {key}
    /\ UNCHANGED <<scores, stopCh, locks, prog, ttlData, now, spawned, ops>>

\* a faulty Close that closes the channel once only (a sync.Once around close)
CloseResultOnce == "ok"

\* what Close() does in this state: close(s.stopCh) panics on a closed channel
CloseResult == IF stopCh = "closed" THEN "panic" ELSE "ok"

\* Close: close(s.stopCh), under no lock.  The panic of a second close unwinds the
\* calling goroutine, which runs no further (what becomes of the other threads is
\* up to the program around the store).
Close(t) ==
    /\ pc[t] = "idle" /\ ops < MaxOps
    /\ ops' = ops + 1
    /\ IF CloseResult = "ok"
       THEN stopCh' = "closed" /\ pc' = pc
       ELSE stopCh' = stopCh /\ pc' = [pc EXCEPT ![t] = "panic"]
    /\ UNCHANGED <<scores, locks, prog, data, ttlData, mutex, now, arg, spawned, expired, last>>

\* a faulty ttlCleaner whose select has no case <-s.stopCh
ReaperIgnoresStop ==
    /\ pc["reaper"] = "idle" /\ expired = {}
    /\ stopCh = "closed"
    /\ UNCHANGED vars

\* ttlCleaner, case <-s.stopCh: return (a receive from a closed channel is ready)
ReaperStop ==
    /\ pc["reaper"] = "idle" /\ expired = {}
    /\ stopCh = "closed"
    /\ pc' = [pc EXCEPT !["reaper"] = "stopped"]
    /\ UNCHANGED <<scores, stopCh, locks, prog, data, ttlData, mutex, now, arg, spawned, expired, last, ops>>

Next ==
    \/ Tick
    \/ \E t \in Callers, k \in AllKeys, v \in Values, c \in Coins : SetInsert(t, k, v, c)
    \/ \E t \in Callers : SetTTL(t)
    \/ \E t \in Callers, k \in AllKeys, v \in Values, d \in Durations, c \in Coins :
           SetWithTTLInsert(t, k, v, d, c)
    \/ \E t \in Callers : SetWithTTLTTL(t)
    \/ \E t \in Callers, k \in AllKeys : CallerDelete(t, k)
    \/ \E t \in Threads : DeleteTTL(t)
    \/ \E k \in AllKeys : LazyDelete(k)
    \/ \E t \in Callers, k \in AllKeys : Get(t, k)
    \/ \E t \in Callers, k \in AllKeys : GetTTL(t, k)
    \/ \E t \in Callers : Size(t)
    \/ \E t \in Callers : SizeActive(t)
    \/ \E t \in Callers : Keys(t)
    \/ \E t \in Callers : Scan(t)
    \/ ReaperScan
    \/ \E k \in AllKeys : ReaperDelete(k)

Spec == Init /\ [][Next]_vars

(***************************************************************************)
(* The store with one caller that writes and one that reads, beside the    *)
(* ttlCleaner and the lazy deletes: what the reading operations return.    *)
(***************************************************************************)
Writer == "c1"
Reader == "c2"

NextReads ==
    \/ Tick
    \/ \E k \in AllKeys, v \in Values, c \in Coins : SetInsert(Writer, k, v, c)
    \/ SetTTL(Writer)
    \/ \E k \in AllKeys, v \in Values, d \in Durations, c \in Coins :
           SetWithTTLInsert(Writer, k, v, d, c)
    \/ SetWithTTLTTL(Writer)
    \/ \E k \in AllKeys : CallerDelete(Writer, k)
    \/ \E t \in {Writer, "reaper", "lazy"} : DeleteTTL(t)
    \/ \E k \in AllKeys : LazyDelete(k)
    \/ \E k \in AllKeys : Get(Reader, k)
    \/ \E k \in AllKeys : GetTTL(Reader, k)
    \/ Size(Reader)
    \/ SizeActive(Reader)
    \/ Keys(Reader)
    \/ Scan(Reader)
    \/ ReaperScan
    \/ \E k \in AllKeys : ReaperDelete(k)

SpecReads == Init /\ [][NextReads]_vars

(***************************************************************************)
(* The store with Close.  Writer writes (one value: Close and the          *)
(* ttlCleaner read no value), Reader reads, and either caller may call     *)
(* Close (a second Close included).                                        *)
(***************************************************************************)
NextClose ==
    \/ Tick
    \/ \E k \in AllKeys, c \in Coins : SetInsert(Writer, k, "v1", c)
    \/ SetTTL(Writer)
    \/ \E k \in AllKeys, d \in Durations, c \in Coins :
           SetWithTTLInsert(Writer, k, "v1", d, c)
    \/ SetWithTTLTTL(Writer)
    \/ \E k \in AllKeys : CallerDelete(Writer, k)
    \/ \E t \in {Writer, "reaper", "lazy"} : DeleteTTL(t)
    \/ \E k \in AllKeys : LazyDelete(k)
    \/ \E k \in AllKeys : Get(Reader, k)
    \/ \E k \in AllKeys : GetTTL(Reader, k)
    \/ Size(Reader)
    \/ SizeActive(Reader)
    \/ Keys(Reader)
    \/ Scan(Reader)
    \/ ReaperScan
    \/ \E k \in AllKeys : ReaperDelete(k)
    \/ \E t \in Callers : Close(t)
    \/ ReaperStop

SpecClose == Init /\ [][NextClose]_vars

(***************************************************************************)
(* The ttlCleaner beside callers that write, close and never read (so that *)
(* no Get starts a lazy delete), under fair scheduling.                    *)
(***************************************************************************)
NextReaper ==
    \/ Tick
    \/ \E k \in AllKeys, c \in Coins : SetInsert(Writer, k, "v1", c)
    \/ SetTTL(Writer)
    \/ \E k \in AllKeys, d \in Durations, c \in Coins :
           SetWithTTLInsert(Writer, k, "v1", d, c)
    \/ SetWithTTLTTL(Writer)
    \/ \E k \in AllKeys : CallerDelete(Writer, k)
    \/ \E t \in {Writer, "reaper"} : DeleteTTL(t)
    \/ ReaperScan
    \/ \E k \in AllKeys : ReaperDelete(k)
    \/ \E t \in Callers : Close(t)
    \/ ReaperStop

\* a thread that holds the store lock goes on to its return
Complete == \E t \in Threads : SetTTL(t) \/ SetWithTTLTTL(t) \/ DeleteTTL(t)

\* cleanExpiredKeys calls its next Delete
ReaperDeletes == \E k \in AllKeys : ReaperDelete(k)

\* the states in which ReaperDeletes can be taken: s.Delete is at s.mutex.Lock()
\* and the lock is free (ENABLED <<ReaperDeletes>>_vars written as a state predicate)
ReaperReady == pc["reaper"] = "idle" /\ Unlocked /\ expired # {}

ReaperReadyIsEnabled == ReaperReady <=> ENABLED <<ReaperDeletes>>_vars

\* Scheduling.  An operation that holds the store lock runs on to its return; the
\* ticker fires every second; cleanExpiredKeys gets the store lock for each of its
\* Deletes (sync.RWMutex hands the lock to a waiting writer): weak fairness of
\* ReaperDeletes, with ReaperReady for its ENABLED; the select of the ttlCleaner
\* takes a ready case at random, so it does not pass over a stop channel that
\* stays closed.  Nothing is assumed of the callers or of the lazy deletes.
Fairness ==
    /\ WF_vars(Complete)
    /\ WF_vars(ReaperScan)
    /\ ([]<>~ReaperReady \/ []<><<ReaperDeletes>>_vars)
    /\ WF_vars(ReaperStop)

SpecReaperFair == Init /\ [][NextReaper]_vars /\ Fairness

(***************************************************************************)
(* The store without expiry (no SetWithTTL, so nothing for the ttlCleaner  *)
(* or a lazy delete to remove), with elements of several levels.           *)
(***************************************************************************)
NextLevels ==
    \/ \E t \in Callers, k \in AllKeys, v \in Values, c \in TallCoins :
           SetInsert(t, k, v, c)
    \/ \E t \in Callers : SetTTL(t)
    \/ \E t \in Callers, k \in AllKeys : CallerDelete(t, k)
    \/ \E t \in Callers : DeleteTTL(t)
    \/ \E t \in Callers, k \in AllKeys : Get(t, k)
    \/ \E t \in Callers : Size(t)
    \/ \E t \in Callers : SizeActive(t)
    \/ \E t \in Callers : Keys(t)
    \/ \E t \in Callers : Scan(t)

SpecLevels == Init /\ [][NextLevels]_vars

(***************************************************************************)
(* Callers that each work on keys of their own with Set, Get and Delete    *)
(* (and read Size), beside the ttlCleaner.                                 *)
(***************************************************************************)
Owned(t) == IF t = "c1" THEN {KeyA} ELSE {KeyB}

NextDisjoint ==
    \/ Tick
    \/ \E t \in Callers, v \in Values, c \in TallCoins :
           \E k \in Owned(t) : SetInsert(t, k, v, c)
    \/ \E t \in Callers : SetTTL(t)
    \/ \E t \in Callers : \E k \in Owned(t) : CallerDelete(t, k)
    \/ \E t \in Callers : DeleteTTL(t)
    \/ \E t \in Callers : \E k \in Owned(t) : Get(t, k)
    \/ \E t \in Callers : Size(t)
    \/ ReaperScan

SpecDisjoint == Init /\ [][NextDisjoint]_vars

(***************************************************************************)
(* The engine on its own: one caller's Insert and Delete calls on a        *)
(* SkipList, with scores the caller chooses (the scores are those of the   *)
(* store's keys, numbers as every float64(uint64) is, given to either key: *)
(* equal scores under two keys, and one key under two scores, are two      *)
(* elements).  arg["c1"] keeps the last call: its key, and Delete's result.*)
(***************************************************************************)
EngineScores == {scores[k] : k \in AllKeys}

EngineInsert(key, value, score, coins) ==
    /\ ops < MaxCalls
    /\ ops' = ops + 1
    /\ data' = Insert(data, key, value, score, randomLevel(1, coins)).list
    /\ arg' = [arg EXCEPT !["c1"] = [NoArg EXCEPT !.key = key, !.value = value]]
    /\ UNCHANGED <<scores, stopCh, locks, prog, ttlData, mutex, now, pc, spawned, expired, last>>

EngineDelete(key, score) ==
    /\ ops < MaxCalls
    /\ ops' = ops + 1
    /\ LET d == Delete(data, key, score)
       IN  /\ data' = d.list
           /\ arg' = [arg EXCEPT !["c1"] = [NoArg EXCEPT !.key = key, !.result = d.ok]]
    /\ UNCHANGED <<scores, stopCh, locks, prog, ttlData, mutex, now, pc, spawned, expired, last>>

NextEngine ==
    \/ \E k \in AllKeys, v \in Values, s \in EngineScores, c \in TallCoins :
           EngineInsert(k, v, s, c)
    \/ \E k \in AllKeys, s \in EngineScores : EngineDelete(k, s)

SpecEngine == Init /\ [][NextEngine]_vars

(***************************************************************************)
(* The engine call by call: one caller's Insert, Delete and Search calls,  *)
(* with the scores of SpecEngine.  arg["c1"] keeps the last call whole.    *)
(***************************************************************************)
\* what the caller keeps of its last call: the call and its arguments, what Delete
\* returned (result), the element Insert or Search returned (elem), and whether the
\* list had the element of (score, key) when the call began (found)
Call(op, key, value, score, result, elem, found) ==
    [key |-> key, value |-> value, score |-> score, elem |-> elem, ttl |-> 0,
     result |-> result, op |-> op, found |-> found]

\* the (score, key) is the pointer of an element of the list
Present(sl, key, score) == <<score, key>> \in {Level0(sl)[i] : i \in 1..Len(Level0(sl))}

InsertCall(key, value, score, coins) ==
    /\ ops < MaxEngineCalls
    /\ ops' = ops + 1
    /\ LET r == Insert(data, key, value, score, randomLevel(1, coins))
       IN  /\ data' = r.list
           /\ arg' = [arg EXCEPT !["c1"] = Call("Insert", key, value, score, FALSE, r.elem,
                                                Present(data, key, score))]
    /\ UNCHANGED <<scores, stopCh, locks, prog, ttlData, mutex, now, pc, spawned, expired, last>>

DeleteCall(key, score) ==
    /\ ops < MaxEngineCalls
    /\ ops' = ops + 1
    /\ LET d == Delete(data, key, score)
       IN  /\ data' = d.list
           /\ arg' = [arg EXCEPT !["c1"] = Call("Delete", key, "", score, d.ok, NIL,
                                                Present(data, key, score))]
    /\ UNCHANGED <<scores, stopCh, locks, prog, ttlData, mutex, now, pc, spawned, expired, last>>

SearchCall(key, score) ==
    /\ ops < MaxEngineCalls
    /\ ops' = ops + 1
    /\ arg' = [arg EXCEPT !["c1"] = Call("Search", key, "", score, FALSE,
                                         Search(data, key, score),
                                         Present(data, key, score))]
    /\ UNCHANGED <<scores, stopCh, locks, prog, data, ttlData, mutex, now, pc, spawned, expired, last>>

\* the outcomes of the coin flips of one randomLevel call: level 1 or level 3
CallCoins == {<<FALSE>>, <<TRUE, TRUE, FALSE>>}

NextCalls ==
    \/ \E k \in AllKeys, v \in Values, s \in EngineScores, c \in CallCoins :
           InsertCall(k, v, s, c)
    \/ \E k \in AllKeys, s \in EngineScores : DeleteCall(k, s)
    \/ \E k \in AllKeys, s \in EngineScores : SearchCall(k, s)

SpecCalls == Init /\ [][NextCalls]_vars

(***************************************************************************)
(* Range call by call: Insert and Delete calls as in SpecCalls, and Range  *)
(* calls with the scores of the elements for minScore and maxScore.        *)
(***************************************************************************)
\* the limits the caller passes to Range
RangeLimits == {0 - 1, 0, 1, 2}

\* what the caller keeps of a call of Range: its arguments and the elements returned
RangeArg(minScore, maxScore, limit, result) ==
    [elems |-> result, minScore |-> minScore, maxScore |-> maxScore, limit |-> limit,
     op |-> "Range"]

RangeCall(minScore, maxScore, limit) ==
    /\ ops < MaxEngineCalls
    /\ ops' = ops + 1
    /\ arg' = [arg EXCEPT !["c1"] =
                   RangeArg(minScore, maxScore, limit, Range(data, minScore, maxScore, limit))]
    /\ UNCHANGED <<scores, stopCh, locks, prog, data, ttlData, mutex, now, pc, spawned, expired, last>>

NextRange ==
    \/ \E k \in AllKeys, v \in Values, s \in EngineScores, c \in CallCoins :
           InsertCall(k, v, s, c)
    \/ \E k \in AllKeys, s \in EngineScores : DeleteCall(k, s)
    \/ \E lo \in EngineScores, hi \in EngineScores, n \in RangeLimits :
           RangeCall(lo, hi, n)

SpecRange == Init /\ [][NextRange]_vars

(***************************************************************************)
(* The store at the grain of its locks.  An operation is the sequence of   *)
(* the Lock, RLock, Unlock and RUnlock calls it makes on s.mutex,          *)
(* s.data.mutex (taken inside the engine's methods) and s.ttlMutex, with   *)
(* the statements they guard that change the state or choose what follows; *)
(* prog[t] is what thread t has still to run (<<>>: t is in no operation). *)
(* fn is the store function the call belongs to.  A sync.RWMutex lets a    *)
(* reader in when no writer holds it and none waits in Lock(), and a       *)
(* writer when nobody holds it.                                            *)
(***************************************************************************)
I(op, lock, fn) ==
    [key |-> NIL, value |-> "", coins |-> <<>>, op |-> op, lock |-> lock, fn |-> fn,
     num |-> 0]

\* m.Lock(); body; m.Unlock()
Exclusive(lock, fn, body) == <<I("Lock", lock, fn)>> \o body \o <<I("Unlock", lock, fn)>>
\* m.RLock(); body; m.RUnlock()
Shared(lock, fn, body) == <<I("RLock", lock, fn)>> \o body \o <<I("RUnlock", lock, fn)>>

\* a faulty Set that leaves out s.mutex.Lock()
SetProgramNoStoreLock(key, value, coins) ==
    Exclusive("data.mutex", "Set",
        <<[I("Insert", "data.mutex", "Set")
              EXCEPT !.key = key, !.value = value, !.coins = coins]>>)
    \o Exclusive("ttlMutex", "Set",
        <<[I("delete", "ttlMutex", "Set") EXCEPT !.key = key]>>)

\* Set: s.mutex.Lock(), s.data.Insert, delete(s.ttlData, key) under s.ttlMutex
SetProgram(key, value, coins) ==
    Exclusive("mutex", "Set",
        Exclusive("data.mutex", "Set",
            <<[I("Insert", "data.mutex", "Set")
                  EXCEPT !.key = key, !.value = value, !.coins = coins]>>)
        \o Exclusive("ttlMutex", "Set",
            <<[I("delete", "ttlMutex", "Set") EXCEPT !.key = key]>>))

\* SetWithTTL: as Set, with s.ttlData[key] = time.Now().Add(ttl) under s.ttlMutex
SetWithTTLProgram(key, value, ttl, coins) ==
    Exclusive("mutex", "SetWithTTL",
        Exclusive("data.mutex", "SetWithTTL",
            <<[I("Insert", "data.mutex", "SetWithTTL")
                  EXCEPT !.key = key, !.value = value, !.coins = coins]>>)
        \o Exclusive("ttlMutex", "SetWithTTL",
            <<[I("store", "ttlMutex", "SetWithTTL") EXCEPT !.key = key, !.num = ttl]>>))

\* a faulty Delete that takes s.ttlMutex before s.mutex
DeleteProgramTTLFirst(key) ==
    Exclusive("ttlMutex", "Delete",
        Exclusive("mutex", "Delete",
            Exclusive("data.mutex", "Delete",
                <<[I("Delete", "data.mutex", "Delete") EXCEPT !.key = key]>>)
            \o <<[I("delete", "ttlMutex", "Delete") EXCEPT !.key = key]>>))

\* Delete: s.mutex.Lock(), s.data.Delete, delete(s.ttlData, key) under s.ttlMutex
DeleteProgram(key) ==
    Exclusive("mutex", "Delete",
        Exclusive("data.mutex", "Delete",
            <<[I("Delete", "data.mutex", "Delete") EXCEPT !.key = key]>>)
        \o Exclusive("ttlMutex", "Delete",
            <<[I("delete", "ttlMutex", "Delete") EXCEPT !.key = key]>>))

\* Get, up to its test of the TTL entry under s.ttlMutex.RLock()
GetProgram(key) ==
    <<I("RLock", "mutex", "Get"), I("RLock", "ttlMutex", "Get"),
      [I("test", "ttlMutex", "Get") EXCEPT !.key = key]>>

\* a faulty Get that returns on an expired entry without s.ttlMutex.RUnlock()
GetRestKeepsTTL(key, isExpired) ==
    IF isExpired
    THEN <<[I("go", "", "Get") EXCEPT !.key = key], I("RUnlock", "mutex", "Get")>>
    ELSE <<I("RUnlock", "ttlMutex", "Get")>>
         \o Shared("data.mutex", "Get", <<>>)
         \o <<I("RUnlock", "mutex", "Get")>>

\* Get, from the test on: an expired entry starts `go s.Delete(key)` and returns,
\* another goes on to s.data.Search
GetRest(key, isExpired) ==
    IF isExpired
    THEN <<I("RUnlock", "ttlMutex", "Get"), [I("go", "", "Get") EXCEPT !.key = key],
           I("RUnlock", "mutex", "Get")>>
    ELSE <<I("RUnlock", "ttlMutex", "Get")>>
         \o Shared("data.mutex", "Get", <<>>)
         \o <<I("RUnlock", "mutex", "Get")>>

\* GetTTL: the lookup under s.ttlMutex.RLock()
GetTTLProgram == Shared("ttlMutex", "GetTTL", <<>>)

\* Size: s.data.Length() under s.mutex.RLock()
SizeProgram == Shared("mutex", "Size", Shared("data.mutex", "Size", <<>>))

\* Keys, up to s.data.First(): s.data.Length() comes first
KeysProgram ==
    <<I("RLock", "mutex", "Keys")>> \o Shared("data.mutex", "Keys", <<>>)
    \o <<I("RLock", "data.mutex", "Keys"), I("First", "data.mutex", "Keys")>>

\* SizeActive, up to s.data.First()
SizeActiveProgram ==
    <<I("RLock", "mutex", "SizeActive"), I("RLock", "data.mutex", "SizeActive"),
      I("First", "data.mutex", "SizeActive")>>

\* Scan, up to s.data.First()
ScanProgram(prefix, limit) ==
    <<I("RLock", "mutex", "Scan"), I("RLock", "data.mutex", "Scan"),
      [I("First", "data.mutex", "Scan") EXCEPT !.key = prefix, !.num = limit]>>

RECURSIVE ScanLookups(_, _, _, _, _)
\* the number of elements for which the loop of Scan, from current on, looks at the
\* TTL table: those with the prefix met while count < limit (the table and the list
\* stay as they are while Scan holds s.mutex)
ScanLookups(current, count, lookups, prefix, limit) ==
    IF ~(current # NIL /\ (limit <= 0 \/ count < limit)) THEN lookups
    ELSE LET e == data.elems[current]
         IN  IF HasPrefix(e.Key, prefix)
             THEN ScanLookups(e.Next[1], IF Live(e.Key) THEN count + 1 ELSE count,
                              lookups + 1, prefix, limit)
             ELSE ScanLookups(e.Next[1], count, lookups, prefix, limit)

RECURSIVE Lookups(_, _)
\* n times: s.ttlMutex.RLock(); the test of one element; s.ttlMutex.RUnlock()
Lookups(n, fn) == IF n = 0 THEN <<>> ELSE Shared("ttlMutex", fn, <<>>) \o Lookups(n - 1, fn)

\* Keys, SizeActive and Scan from s.data.First() on: the loop over the elements
WalkRest(first) ==
    <<I("RUnlock", "data.mutex", first.fn)>>
    \o Lookups(IF first.fn = "Scan"
               THEN ScanLookups(First(data), 0, 0, first.key, first.num)
               ELSE Len(Level0(data)),
               first.fn)
    \o <<I("RUnlock", "mutex", first.fn)>>

\* cleanExpiredKeys, up to the loop over s.ttlData: read is its now := time.Now()
cleanExpiredKeysProgram(read) ==
    <<I("RLock", "ttlMutex", "cleanExpiredKeys"),
      [I("range", "ttlMutex", "cleanExpiredKeys") EXCEPT !.num = read]>>

RECURSIVE Deletes(_)
\* for _, key := range expiredKeys { s.Delete([]byte(key)) }
Deletes(keys) == IF keys = <<>> THEN <<>> ELSE DeleteProgram(Head(keys)) \o Deletes(Tail(keys))

\* a faulty cleanExpiredKeys that keeps s.ttlMutex.RLock() over the loop of Deletes
\* (defer s.ttlMutex.RUnlock())
CollectedDeferred(keys) == Deletes(keys) \o <<I("RUnlock", "ttlMutex", "cleanExpiredKeys")>>

\* cleanExpiredKeys, from the end of the loop over s.ttlData on
Collected(keys) == <<I("RUnlock", "ttlMutex", "cleanExpiredKeys")>> \o Deletes(keys)

\* the orders in which ranging over the map can have met the keys of a set
Orders(set) ==
    {seq \in UNION {[1..n -> set] : n \in {Cardinality(set)}} :
         \A i, j \in DOMAIN seq : seq[i] = seq[j] => i = j}

\* the call thread t is at
At(t) == Head(prog[t])
Running(t) == prog[t] # <<>>
\* t goes on to its next call
Return(t) == prog' = [prog EXCEPT ![t] = Tail(@)]
\* t goes on with rest in place of the call it is at
Continue(t, rest) == prog' = [prog EXCEPT ![t] = rest \o Tail(@)]

\* what the steps at the grain of the locks leave alone
Coarse == UNCHANGED <<scores, stopCh, mutex, pc, arg, last, expired>>

\* a sync.RWMutex lets a writer in
CanLock(m) == locks[m].writer = NoThread /\ locks[m].readers = {}
\* a sync.RWMutex lets a reader in
CanRLock(m) == locks[m].writer = NoThread /\ locks[m].waiting = {}

\* the programs the callers can begin: Writer the writing operations (one value and
\* the duration 0: an entry is live until the clock moves, and expired from then
\* on), Reader the reading ones; the ttlCleaner and the lazy deletes write too
Programs(t) ==
    IF t = Writer
    THEN {SetProgram(k, "v1", c) : k \in AllKeys, c \in Coins}
         \cup {SetWithTTLProgram(k, "v1", 0, c) : k \in AllKeys, c \in Coins}
         \cup {DeleteProgram(k) : k \in AllKeys}
    ELSE {GetProgram(k) : k \in AllKeys}
         \cup {GetTTLProgram, SizeProgram, KeysProgram, SizeActiveProgram}
         \cup {ScanProgram(<<>>, 0), ScanProgram(KeyB, 1)}

\* a caller calls an operation of the store
Invoke(t, p) ==
    /\ ~Running(t) /\ ops < MaxInvokes
    /\ ops' = ops + 1
    /\ prog' = [prog EXCEPT ![t] = p]
    /\ Coarse /\ UNCHANGED <<data, ttlData, now, spawned, locks>>

\* the ticker of ttlCleaner fires: case <-ticker.C, and cleanExpiredKeys begins
TickerFires ==
    /\ ~Running("reaper") /\ stopCh = "open"
    /\ prog' = [prog EXCEPT !["reaper"] = cleanExpiredKeysProgram(now)]
    /\ Coarse /\ UNCHANGED <<data, ttlData, now, spawned, ops, locks>>

\* a goroutine started by `go s.Delete(key)` begins to run
LazyStart(key) ==
    /\ ~Running("lazy") /\ spawned[key] > 0
    /\ spawned' = [spawned EXCEPT ![key] = @ - 1]
    /\ prog' = [prog EXCEPT !["lazy"] = DeleteProgram(key)]
    /\ Coarse /\ UNCHANGED <<data, ttlData, now, ops, locks>>

\* m.Lock() is called: from here on no new reader gets in
LockCall(t) ==
    /\ Running(t) /\ At(t).op = "Lock"
    /\ locks' = [locks EXCEPT ![At(t).lock].waiting = @ \cup {t}]
    /\ Continue(t, <<[At(t) EXCEPT !.op = "Acquire"]>>)
    /\ Coarse /\ UNCHANGED <<data, ttlData, now, spawned, ops>>

\* m.Lock() returns
LockReturns(t) ==
    /\ Running(t) /\ At(t).op = "Acquire"
    /\ CanLock(At(t).lock)
    /\ locks' = [locks EXCEPT ![At(t).lock].waiting = @ \ {t},
                              ![At(t).lock].writer = t]
    /\ Return(t)
    /\ Coarse /\ UNCHANGED <<data, ttlData, now, spawned, ops>>

\* m.Unlock()
UnlockCall(t) ==
    /\ Running(t) /\ At(t).op = "Unlock"
    /\ locks' = [locks EXCEPT ![At(t).lock].writer = NoThread]
    /\ Return(t)
    /\ Coarse /\ UNCHANGED <<data, ttlData, now, spawned, ops>>

\* m.RLock() returns
RLockReturns(t) ==
    /\ Running(t) /\ At(t).op = "RLock"
    /\ CanRLock(At(t).lock)
    /\ locks' = [locks EXCEPT ![At(t).lock].readers = @ \cup {t}]
    /\ Return(t)
    /\ Coarse /\ UNCHANGED <<data, ttlData, now, spawned, ops>>

\* m.RUnlock()
RUnlockCall(t) ==
    /\ Running(t) /\ At(t).op = "RUnlock"
    /\ locks' = [locks EXCEPT ![At(t).lock].readers = @ \ {t}]
    /\ Return(t)
    /\ Coarse /\ UNCHANGED <<data, ttlData, now, spawned, ops>>

\* s.data.Insert, inside its sl.mutex.Lock()
InsertStep(t) ==
    /\ Running(t) /\ At(t).op = "Insert"
    /\ data' = Insert(data, At(t).key, At(t).value, Score(At(t).key),
                      randomLevel(1, At(t).coins)).list
    /\ Return(t)
    /\ Coarse /\ UNCHANGED <<ttlData, now, spawned, ops, locks>>

\* s.data.Delete, inside its sl.mutex.Lock()
DeleteStep(t) ==
    /\ Running(t) /\ At(t).op = "Delete"
    /\ \E d \in {Delete(data, At(t).key, Score(At(t).key))} : data' = d.list
    /\ Return(t)
    /\ Coarse /\ UNCHANGED <<ttlData, now, spawned, ops, locks>>

\* delete(s.ttlData, string(key))
TTLDeleteStep(t) ==
    /\ Running(t) /\ At(t).op = "delete"
    /\ ttlData' = Without(ttlData, At(t).key)
    /\ Return(t)
    /\ Coarse /\ UNCHANGED <<data, now, spawned, ops, locks>>

\* s.ttlData[string(key)] = time.Now().Add(ttl)
TTLStoreStep(t) ==
    /\ Running(t) /\ At(t).op = "store"
    /\ ttlData' = (At(t).key :> (now + At(t).num)) @@ ttlData
    /\ Return(t)
    /\ Coarse /\ UNCHANGED <<data, now, spawned, ops, locks>>

\* the test of Get under s.ttlMutex.RLock()
TestStep(t) ==
    /\ Running(t) /\ At(t).op = "test"
    /\ Continue(t, GetRest(At(t).key, GetExpired(At(t).key)))
    /\ Coarse /\ UNCHANGED <<data, ttlData, now, spawned, ops, locks>>

\* go s.Delete(key)
GoStep(t) ==
    /\ Running(t) /\ At(t).op = "go"
    /\ spawned' = [spawned EXCEPT ![At(t).key] = @ + 1]
    /\ Return(t)
    /\ Coarse /\ UNCHANGED <<data, ttlData, now, ops, locks>>

\* s.data.First(), inside its sl.mutex.RLock(): the loop that follows is as long
\* as the list is
FirstStep(t) ==
    /\ Running(t) /\ At(t).op = "First"
    /\ Continue(t, WalkRest(At(t)))
    /\ Coarse /\ UNCHANGED <<data, ttlData, now, spawned, ops, locks>>

\* a faulty cleanExpiredKeys that collects the keys with !expiry.After(now)
RangeStepInclusive ==
    /\ Running("reaper") /\ At("reaper").op = "range"
    /\ \E keys \in Orders({k \in DOMAIN ttlData : ttlData[k] <= At("reaper").num}) :
           Continue("reaper", Collected(keys))
    /\ Coarse /\ UNCHANGED <<data, ttlData, now, spawned, ops, locks>>

\* the loop of cleanExpiredKeys over s.ttlData: the keys with expiry.Before(now)
RangeStep ==
    /\ Running("reaper") /\ At("reaper").op = "range"
    /\ \E keys \in Orders({k \in DOMAIN ttlData : ttlData[k] < At("reaper").num}) :
           Continue("reaper", Collected(keys))
    /\ Coarse /\ UNCHANGED <<data, ttlData, now, spawned, ops, locks>>

\* time passes
LockTick ==
    /\ now < MaxLockTime
    /\ now' = now + 1
    /\ Coarse /\ UNCHANGED <<data, ttlData, spawned, ops, locks, prog>>

NextLocks ==
    \/ LockTick
    \/ \E t \in Callers : \E p \in Programs(t) : Invoke(t, p)
    \/ TickerFires
    \/ \E k \in AllKeys : LazyStart(k)
    \/ \E t \in Threads : LockCall(t)
    \/ \E t \in Threads : LockReturns(t)
    \/ \E t \in Threads : UnlockCall(t)
    \/ \E t \in Threads : RLockReturns(t)
    \/ \E t \in Threads : RUnlockCall(t)
    \/ \E t \in Threads : InsertStep(t)
    \/ \E t \in Threads : DeleteStep(t)
    \/ \E t \in Threads : TTLDeleteStep(t)
    \/ \E t \in Threads : TTLStoreStep(t)
    \/ \E t \in Threads : TestStep(t)
    \/ \E t \in Threads : GoStep(t)
    \/ \E t \in Threads : FirstStep(t)
    \/ RangeStep

SpecLocks == Init /\ [][NextLocks]_vars

\* thread t runs the call of a lock it is at
LockStep(t) ==
    \/ LockCall(t) \/ LockReturns(t) \/ UnlockCall(t)
    \/ RLockReturns(t) \/ RUnlockCall(t)

\* thread t runs the call it is at under the locks it holds
BodyStep(t) ==
    \/ InsertStep(t) \/ DeleteStep(t) \/ TTLDeleteStep(t) \/ TTLStoreStep(t)
    \/ TestStep(t) \/ GoStep(t) \/ FirstStep(t)
    \/ (t = "reaper" /\ RangeStep)

\* the calls that wait for nothing
Bodies == {"Insert", "Delete", "delete", "store", "test", "go", "First", "range"}

\* BodyStep(t) can be taken
InBody(t) == Running(t) /\ At(t).op \in Bodies

InBodyIsEnabled == \A t \in Threads : InBody(t) <=> ENABLED <<BodyStep(t)>>_vars

\* Scheduling: a goroutine that can run its next call does so in the end: weak
\* fairness of LockStep(t) and of BodyStep(t), with InBody(t) for the ENABLED of
\* the latter.  Nothing is assumed of when callers invoke, the ticker fires or a
\* started goroutine begins.
LockFairness ==
    \A t \in Threads :
        /\ WF_vars(LockStep(t))
        /\ ([]<>~InBody(t) \/ []<><<BodyStep(t)>>_vars)

SpecLocksFair == SpecLocks /\ LockFairness

(***************************************************************************)
(* Properties.                                                             *)
(***************************************************************************)
Found(value) == [found |-> TRUE, value |-> value]
Idle == \A t \in Threads : pc[t] = "idle"
MidWrite == {"SetTTL", "SetWithTTLTTL", "DeleteTTL"}

\* C1: round trip.  Once a caller's Set(k, v) has returned and no caller Set,
\* SetWithTTL or Delete on k has begun since, a Get(k) (which runs when no writer
\* holds the store lock) returns v with found = true, whatever the ttlCleaner and
\* the goroutines started by earlier Gets have done in between.
C1_RoundTrip ==
    \A k \in AllKeys :
        (last[k].op = "Set" /\ Unlocked) => GetResult(k) = Found(last[k].value)

\* C2 as stated: in every reachable state, those inside a Set, SetWithTTL or
\* Delete included, every key of the TTL table is the key of an element of the
\* skip list.
C2_TTLKeysInList == DOMAIN ttlData \subseteq Members(data)

\* the keys whose element a Delete under way has removed while their TTL entry waits
Deleting == {arg[t].key : t \in {u \in Threads : pc[u] = "DeleteTTL"}}

\* C2 amended: in every reachable state, those inside a Set or SetWithTTL included,
\* every key of the TTL table is the key of an element of the skip list, except the
\* key of a Delete that has removed the element and not yet the TTL entry; so it
\* holds of all keys whenever the store lock is free.
C2_TTLKeysInListUnlessDeleting ==
    /\ (DOMAIN ttlData) \ Deleting \subseteq Members(data)
    /\ Unlocked => Deleting = {}

C2_Witness ==
    \E t \in Threads :
        /\ pc[t] \in {"SetTTL", "SetWithTTLTTL"}
        /\ arg[t].key \in DOMAIN ttlData
        /\ Cardinality(DOMAIN ttlData) = 2

\* C3: TTL boundary.  Once a caller's SetWithTTL(k, v, d) with d > 0 has returned at
\* time t and no caller write on k has begun since (no Set and no SetWithTTL, as the
\* claim asks, and no Delete either), a Get(k) at a time before t + d returns v with
\* found = true and a Get(k) at a time after t + d returns not found.
C3_TTLBoundary ==
    \A k \in AllKeys :
        (last[k].op = "SetWithTTL" /\ last[k].ttl > 0 /\ Unlocked) =>
            /\ now < last[k].expiry => GetResult(k) = Found(last[k].value)
            /\ now > last[k].expiry => ~GetResult(k).found

\* C4: lazy expiry.  The step of a Get(k) that finds an expired TTL entry (the only
\* step that starts a goroutine) returns not found, changes neither the skip list
\* nor the TTL table, and starts exactly one `go s.Delete(k)`: k is still an element,
\* counted by Size, right after it.
C4_LazyExpiry ==
    [][\A k \in AllKeys :
          spawned'[k] > spawned[k] =>
              /\ GetExpired(k) /\ ~GetResult(k).found
              /\ spawned'[k] = spawned[k] + 1
              /\ data' = data /\ ttlData' = ttlData
              /\ SizeResult' = SizeResult
              /\ (k \in Members(data) => k \in Members(data'))]_vars

C4_Witness ==
    \E k \in AllKeys :
        /\ spawned[k] > 0 /\ GetExpired(k) /\ ~GetResult(k).found
        /\ k \in Members(data) /\ SizeResult > 0

\* C5: concurrent safety.  With each caller working on keys of its own with Set, Get
\* and Delete, no operation is left unfinished holding the store lock, and once all
\* have returned Size is the number of keys whose last Set or Delete was a Set.
C5_DisjointSize ==
    /\ \A t \in Threads :
           pc[t] # "idle" => mutex = t /\ (ENABLED SetTTL(t) \/ ENABLED DeleteTTL(t))
    /\ Idle => /\ Unlocked
               /\ SizeResult = Cardinality({k \in AllKeys : last[k].op = "Set"})
               /\ Members(data) = {k \in AllKeys : last[k].op = "Set"}

C5_Witness ==
    /\ Idle /\ SizeResult = 1
    /\ last[KeyA].op = "Set" /\ last[KeyB].op = "Delete" /\ last[KeyB].ok

\* the write of thread t has changed the skip list and has a change of the TTL table
\* still to make
HalfApplied(t) ==
    \/ pc[t] = "SetTTL" /\ arg[t].key \in DOMAIN ttlData
    \/ pc[t] = "SetWithTTLTTL" /\ arg[t].key \notin DOMAIN ttlData
    \/ pc[t] = "DeleteTTL" /\ arg[t].result /\ arg[t].key \in DOMAIN ttlData

\* C6 as stated: while a Set, SetWithTTL or Delete has changed the skip list and not
\* yet the TTL table, no observer can run: no Get, GetTTL, AllKeys, Scan, Size or
\* SizeActive of a caller, and no scan of the TTL table by the ttlCleaner.
C6_NoObserverBetween ==
    \A t \in Threads :
        HalfApplied(t) =>
            /\ \A c \in Callers :
                   /\ \A k \in AllKeys : ~ENABLED Get(c, k) /\ ~ENABLED GetTTL(c, k)
                   /\ ~ENABLED Size(c) /\ ~ENABLED SizeActive(c)
                   /\ ~ENABLED Keys(c) /\ ~ENABLED Scan(c)
            /\ ~ENABLED ReaperScan

\* C6 amended: atomicity.  A Set, SetWithTTL or Delete changes the skip list in the step
\* that takes the store lock and the TTL table in the step that releases it.  In
\* between, no operation that reads the skip list (Get, Size, SizeActive, AllKeys, Scan)
\* can run; GetTTL and the ttlCleaner's scan can, and what they read is the TTL
\* table as it was before the operation began, in which state the skip list had not
\* changed either.  So no observer sees the one change without the other, though
\* GetTTL and the ttlCleaner's scan do run between the two.
C6_Atomic ==
    [][/\ \A t \in Threads :
              pc[t] \in MidWrite =>
                  /\ mutex = t
                  /\ \A c \in Callers :
                         /\ \A k \in AllKeys : ~ENABLED Get(c, k)
                         /\ ~ENABLED Size(c) /\ ~ENABLED SizeActive(c)
                         /\ ~ENABLED Keys(c) /\ ~ENABLED Scan(c)
       /\ data' # data =>
              \E t \in Threads :
                  /\ pc[t] = "idle" /\ pc'[t] \in MidWrite
                  /\ mutex = NoThread /\ mutex' = t
                  /\ ttlData' = ttlData
       /\ ttlData' # ttlData =>
              \E t \in Threads :
                  /\ pc[t] \in MidWrite /\ pc'[t] = "idle"
                  /\ mutex = t /\ mutex' = NoThread
                  /\ data' = data]_vars

\* a Set has replaced the value of a key and its TTL entry is still in the table,
\* with a caller free to call GetTTL and the ttlCleaner free to scan
C6_Witness ==
    \E t \in Callers, c \in Callers :
        /\ HalfApplied(t) /\ pc[t] = "SetTTL"
        /\ GetResult(arg[t].key).value = arg[t].value
        /\ ENABLED GetTTL(c, arg[t].key) /\ GetTTLResult(arg[t].key).present
        /\ ENABLED ReaperScan

\* C7: idempotent delete.  A Delete (by any thread) of a key that is not in the skip
\* list computes the result false and leaves the whole skip list as it was: its
\* elements, their values and links, tail, length (so Size) and level.
C7_DeleteAbsent ==
    [][\A t \in Threads :
          (pc[t] = "idle" /\ pc'[t] = "DeleteTTL" /\ arg'[t].key \notin Members(data)) =>
              /\ ~arg'[t].result
              /\ data' = data
              /\ SizeResult' = SizeResult]_vars

\* a Delete of an absent key has returned false beside an element of level 3
C7_Witness ==
    \E k \in AllKeys :
        /\ last[k].op = "Delete" /\ ~last[k].ok
        /\ k \notin Members(data) /\ SizeResult > 0 /\ data.level = 3

\* C8: Delete(k) (by any thread) returns true exactly when k was an element of the
\* skip list when it took the store lock, and when it returns k is in neither the
\* skip list nor the TTL table and a Get(k) returns not found.
C8_Delete ==
    [][\A t \in Threads :
          /\ (pc[t] = "idle" /\ pc'[t] = "DeleteTTL") =>
                 /\ arg'[t].result = (arg'[t].key \in Members(data))
                 /\ arg'[t].key \notin Members(data')
          /\ \A k \in AllKeys :
                 (pc[t] = "DeleteTTL" /\ pc'[t] = "idle" /\ arg[t].key = k) =>
                     /\ k \notin Members(data')
                     /\ k \notin DOMAIN ttlData'
                     /\ ~GetResult(k)'.found
                     /\ Unlocked']_vars

C8_Witness ==
    \E k \in AllKeys :
        /\ last[k].op = "Delete" /\ last[k].ok /\ last[k].prev = "SetWithTTL"
        /\ Unlocked /\ k \notin Members(data) /\ k \notin DOMAIN ttlData
        /\ ~GetResult(k).found

\* C9: plain Set clears expiry.  Once a caller's Set(k, v2) that followed a
\* SetWithTTL on k has returned and no caller write on k has begun since, k has no
\* TTL entry, GetTTL(k) reports no TTL, and a Get(k) returns v2, at every time.
C9_SetClearsExpiry ==
    \A k \in AllKeys :
        (last[k].op = "Set" /\ last[k].prev = "SetWithTTL") =>
            /\ k \notin DOMAIN ttlData
            /\ ~GetTTLResult(k).present
            /\ Unlocked => GetResult(k) = Found(last[k].value)

\* C10: SetWithTTL replaces expiry.  Once a caller's SetWithTTL(k, v, d) has returned
\* at time t and no caller write on k has begun since, up to the time t + d the TTL
\* table maps k to t + d, and at a time u < t + d GetTTL(k) reports present = true
\* with t + d - u remaining, which is at most d.
C10_SetWithTTLReplaces ==
    \A k \in AllKeys :
        last[k].op = "SetWithTTL" =>
            /\ now <= last[k].expiry =>
                   k \in DOMAIN ttlData /\ ttlData[k] = last[k].expiry
            /\ now < last[k].expiry =>
                   /\ GetTTLResult(k) =
                          [remaining |-> last[k].expiry - now, present |-> TRUE]
                   /\ GetTTLResult(k).remaining <= last[k].ttl

\* the keys of the store with a TTL entry whose instant is still to come
Future == {k \in DOMAIN ttlData : ttlData[k] > now}

\* C11: GetTTL(k) reports present = true, with the time left to the expiry instant
\* (which is positive), exactly when k has a TTL entry whose instant is in the future,
\* and otherwise (no entry, or an instant that is now or past) present = false with
\* duration 0; no GetTTL step changes the skip list or the TTL table.
C11_GetTTL ==
    \A k \in AllKeys :
        /\ GetTTLResult(k).present <=> k \in Future
        /\ k \in Future =>
               GetTTLResult(k).remaining = ttlData[k] - now /\ GetTTLResult(k).remaining > 0
        /\ k \notin Future => GetTTLResult(k).remaining = 0
        /\ \A c \in Callers :
               ~ENABLED (GetTTL(c, k) /\ <<data, ttlData>>' # <<data, ttlData>>)

\* one key has an entry whose instant is now and the other an entry still to come,
\* with a caller free to call GetTTL
C11_Witness ==
    \E k \in AllKeys, j \in AllKeys, c \in Callers :
        /\ k \in DOMAIN ttlData /\ ttlData[k] = now /\ ~GetTTLResult(k).present
        /\ j \in Future /\ GetTTLResult(j).present
        /\ ENABLED GetTTL(c, k)

\* the keys a level-0 traversal from First() meets, in order
Traversal == [i \in 1..Len(Level0(data)) |-> data.elems[Level0(data)[i]].Key]

\* the elements of the skip list with no TTL entry or an instant still to come
Unexpired == {k \in Members(data) : k \notin DOMAIN ttlData \/ ttlData[k] > now}

\* C12: Keys() returns exactly the keys of the elements of the skip list that have no
\* TTL entry or an expiry instant still in the future, each once, in the order of the
\* level-0 traversal; and once Set(a), Set(b), Delete(a) have returned as the only
\* writes of a fresh b and of a, it returns [b].
C12_Keys ==
    /\ \A i, j \in 1..Len(KeysResult) : i # j => KeysResult[i] # KeysResult[j]
    /\ {KeysResult[i] : i \in 1..Len(KeysResult)} = Unexpired
    /\ \A i, j \in 1..Len(KeysResult) :
           i < j => \E p, q \in 1..Len(Traversal) :
                        p < q /\ Traversal[p] = KeysResult[i] /\ Traversal[q] = KeysResult[j]
    /\ \A a, b \in AllKeys :
           ( /\ a # b /\ Unlocked
             /\ last[a].op = "Delete" /\ last[a].prev = "Set"
             /\ last[b].op = "Set" /\ last[b].prev = "none" ) => KeysResult = <<b>>

\* both keys are elements, one of them expired, and a caller is free to call Keys
C12_Witness ==
    /\ Len(Traversal) = 2 /\ Len(KeysResult) = 1
    /\ \E c \in Callers : ENABLED Keys(c)

\* the key starts with the bytes of prefix
StartsWith(key, prefix) ==
    \A i \in 1..Len(prefix) : i <= Len(key) /\ key[i] = prefix[i]

\* the unexpired elements of the skip list whose key starts with prefix
Matching(prefix) == {k \in Unexpired : StartsWith(k, prefix)}

\* C13: Scan(prefix, 0) returns a map whose keys are exactly the keys of the unexpired
\* elements that start with prefix, each with the value the element holds.
C13_ScanUnlimited ==
    \A prefix \in Prefixes :
        /\ DOMAIN ScanResult(prefix, 0) = Matching(prefix)
        /\ \A k \in Matching(prefix) : ScanResult(prefix, 0)[k] = GetFound(k).value

\* "a" is an expired element and "ab" a live one: Scan("a", 0) returns "ab" alone and
\* Scan("b", 0) nothing
C13_Witness ==
    /\ Members(data) = AllKeys /\ Unexpired = {KeyB}
    /\ DOMAIN ScanResult(<<97>>, 0) = {KeyB} /\ DOMAIN ScanResult(<<98>>, 0) = {}
    /\ \E c \in Callers : ENABLED Scan(c)

\* the smaller of two numbers
Min(a, b) == IF a < b THEN a ELSE b

\* C14: Scan(prefix, limit) with limit > 0 returns min(limit, m) entries, m being the
\* number of unexpired elements whose key starts with prefix.
C14_ScanLimit ==
    \A prefix \in Prefixes, limit \in Limits :
        Cardinality(DOMAIN ScanResult(prefix, limit)) =
            Min(limit, Cardinality(Matching(prefix)))

\* two live elements start with "a": Scan("a", 1) returns one of them
C14_Witness ==
    /\ Cardinality(Matching(<<97>>)) = 2
    /\ Cardinality(DOMAIN ScanResult(<<97>>, 1)) = 1
    /\ \E c \in Callers : ENABLED Scan(c)

\* the elements of the skip list whose TTL instant is now or past
Passed == {k \in Members(data) : k \in DOMAIN ttlData /\ ttlData[k] <= now}

\* C15: Size() is the number of elements of the skip list, expired ones included;
\* SizeActive() is Size() less the number of elements whose TTL instant has passed;
\* so SizeActive() <= Size().
C15_Sizes ==
    /\ SizeResult = Len(Traversal)
    /\ SizeResult = Cardinality(Members(data))
    /\ SizeActiveResult = SizeResult - Cardinality(Passed)
    /\ SizeActiveResult <= SizeResult

\* two elements, one of them expired and not yet removed
C15_Witness ==
    /\ SizeResult = 2 /\ SizeActiveResult = 1 /\ Cardinality(Passed) = 1
    /\ \E c \in Callers : ENABLED Size(c) /\ ENABLED SizeActive(c)

\* C16: Reaper termination.  Once Close() has closed the stop channel the ttlCleaner
\* goroutine eventually returns (the scheduling being fair), and from its return on it
\* scans nothing and calls no Delete.
C16_ReaperTerminates ==
    /\ (stopCh = "closed") ~> (pc["reaper"] = "stopped")
    /\ [][pc["reaper"] = "stopped" =>
              /\ pc'["reaper"] = "stopped" /\ expired' = {}
              /\ ~ReaperScan /\ \A k \in AllKeys : ~ReaperDelete(k)]_vars

\* the ttlCleaner has returned and left an expired key in the store
C16_Witness ==
    /\ stopCh = "closed" /\ pc["reaper"] = "stopped"
    /\ \E k \in DOMAIN ttlData : ttlData[k] < now /\ k \in Members(data)

\* C17: after Close() the store serves its callers as an open store does.  A caller
\* that an open store would let begin Set, SetWithTTL, Delete, Get, GetTTL, Keys,
\* Scan, Size or SizeActive can begin it, an operation under way returns, and an
\* expired key a Get has met is still deleted; a write that began after Close()
\* shows in Get as on an open store; what no longer runs, once the ttlCleaner has
\* returned, is cleanExpiredKeys.
C17_UsableAfterClose ==
    stopCh = "closed" =>
        /\ \A t \in Callers :
               /\ pc[t] = "idle" => \A k \in AllKeys : ENABLED GetTTL(t, k)
               /\ (pc[t] = "idle" /\ Unlocked) =>
                      /\ ENABLED Size(t) /\ ENABLED SizeActive(t)
                      /\ ENABLED Keys(t) /\ ENABLED Scan(t)
                      /\ \A k \in AllKeys :
                             (GetExpired(k) => ops < MaxOps) => ENABLED Get(t, k)
               /\ (t = Writer /\ pc[t] = "idle" /\ Unlocked /\ ops < MaxOps) =>
                      \A k \in AllKeys :
                          /\ ENABLED SetInsert(t, k, "v1", <<FALSE>>)
                          /\ ENABLED SetWithTTLInsert(t, k, "v1", 1, <<FALSE>>)
                          /\ ENABLED CallerDelete(t, k)
               /\ pc[t] = "SetTTL" => ENABLED SetTTL(t)
               /\ pc[t] = "SetWithTTLTTL" => ENABLED SetWithTTLTTL(t)
               /\ pc[t] = "DeleteTTL" => ENABLED DeleteTTL(t)
        /\ \A k \in AllKeys :
               /\ (spawned[k] > 0 /\ pc["lazy"] = "idle" /\ Unlocked) => ENABLED LazyDelete(k)
               /\ (last[k].closed /\ last[k].prev = "none" /\ Unlocked) =>
                      /\ last[k].op = "Set" =>
                             GetResult(k) = [value |-> last[k].value, found |-> TRUE]
                      /\ (last[k].op = "SetWithTTL" /\ now <= last[k].expiry) =>
                             GetResult(k) = [value |-> last[k].value, found |-> TRUE]
                      /\ last[k].op = "Delete" => ~GetResult(k).found
        /\ pc["reaper"] = "stopped" =>
               /\ ~ENABLED ReaperScan
               /\ \A k \in AllKeys : ~ENABLED ReaperDelete(k)

\* the ttlCleaner has returned, and a Set that began after Close() has returned
C17_Witness ==
    /\ stopCh = "closed" /\ pc["reaper"] = "stopped"
    /\ \E k \in AllKeys : /\ last[k].closed /\ last[k].op = "Set" /\ Unlocked
                          /\ GetResult(k).found
                          /\ \E t \in Callers : pc[t] = "idle" /\ ENABLED Get(t, k)

\* C18: Close is not idempotent.  The first Close() closes the stop channel and
\* returns; a Close() of a store that is closed already panics (close of a closed
\* channel) and is never a no-op; no caller panics while the store is open.
C18_CloseNotIdempotent ==
    /\ [](\A t \in Callers : pc[t] = "panic" => stopCh = "closed")
    /\ [][\A t \in Callers :
              Close(t) =>
                  IF stopCh = "open"
                  THEN CloseResult = "ok" /\ stopCh' = "closed" /\ pc'[t] = "idle"
                  ELSE CloseResult = "panic" /\ stopCh' = "closed" /\ pc'[t] = "panic"]_vars

\* a caller has called Close() on the closed store
C18_Witness == stopCh = "closed" /\ \E t \in Callers : pc[t] = "panic"

\* (score, key) of element a sorts strictly before that of element b
Ascending(a, b) ==
    \/ ScoreLess(a.Score, b.Score)
    \/ (a.Score = b.Score /\ BytesCompare(a.Key, b.Key) < 0)

\* C19: ordering invariant.  After any sequence of Insert and Delete calls on the
\* engine, the elements met by following the level-0 forward links from the head
\* are in strictly increasing (score, key) order, and none is met twice.
C19_Ordering ==
    LET chain == Level0(data)
    IN  /\ \A i \in 1..(Len(chain) - 1) :
               Ascending(data.elems[chain[i]], data.elems[chain[i + 1]])
        /\ \A i, j \in 1..Len(chain) : chain[i] = chain[j] => i = j

\* a Delete has just removed an element, and what is left has two elements of one
\* score and an element of another
C19_Witness ==
    LET chain == Level0(data)
    IN  /\ arg["c1"].result
        /\ Len(chain) >= 3
        /\ \E i \in 1..(Len(chain) - 1) :
               data.elems[chain[i]].Score = data.elems[chain[i + 1]].Score

\* C20: active expiry.  Under fair scheduling, and with no caller ever reading, a
\* key whose TTL instant has passed on an open store is in the end in neither the
\* skip list nor the TTL table, unless a caller writes the key again or the store
\* is closed first.
C20_ActiveExpiry ==
    \A k \in AllKeys :
        (stopCh = "open" /\ k \in DOMAIN ttlData /\ ttlData[k] < now)
            ~> \/ k \notin DOMAIN ttlData /\ k \notin Members(data)
               \/ last[k].op = "busy"
               \/ stopCh = "closed"

\* on an open store the ttlCleaner has removed an expired key from the skip list
\* and is about to remove its TTL entry
C20_Witness ==
    /\ stopCh = "open"
    /\ pc["reaper"] = "DeleteTTL" /\ arg["reaper"].result
    /\ arg["reaper"].key \in DOMAIN ttlData
    /\ ttlData[arg["reaper"].key] < now
    /\ last[arg["reaper"].key].op = "SetWithTTL"

\* C22: expiry removes only expired data.  A Delete called by cleanExpiredKeys or
\* started by Get's `go s.Delete(k)` that removes the element of k from the skip
\* list does so at a moment at which k has a TTL entry whose instant is not in the
\* future.
C22_ExpiryRemovesExpiredOnly ==
    [][\A k \in AllKeys :
          ((ReaperDelete(k) \/ LazyDelete(k))
               /\ k \in Members(data) /\ k \notin Members(data'))
              => (k \in DOMAIN ttlData /\ ttlData[k] <= now)]_vars

\* thread t waits in Lock() or RLock() of the mutex it is at
Blocked(t) ==
    /\ Running(t)
    /\ \/ At(t).op = "Acquire" /\ ~CanLock(At(t).lock)
       \/ At(t).op = "RLock" /\ ~CanRLock(At(t).lock)

\* the threads that hold mutex m
Holders(m) == locks[m].readers \cup (IF locks[m].writer = NoThread THEN {} ELSE {locks[m].writer})

\* C21: progress.  Under fair scheduling every operation a caller has invoked
\* returns, and so does every Delete of the ttlCleaner and of a lazy expiry (no
\* thread stays in an operation for ever: it is outside one again and again); a
\* thread in an operation that cannot run its next call waits in Lock() or RLock()
\* of a mutex that another thread holds, or that a writer ahead of it is about to get.
C21_Progress ==
    /\ \A t \in Threads : []<>~Running(t)
    /\ [](\A t \in Threads :
              Blocked(t) =>
                  \/ Holders(At(t).lock) \ {t} # {}
                  \/ \E w \in locks[At(t).lock].waiting \ {t} : CanLock(At(t).lock))

\* a caller waits in s.mutex.RLock() while a Delete of the ttlCleaner holds s.mutex
C21_Witness ==
    /\ Blocked(Reader) /\ At(Reader).lock = "mutex"
    /\ locks["mutex"].writer = "reaper"

\* the ttlCleaner is inside a call of s.Delete
ReaperInDelete == Running("reaper") /\ At("reaper").fn = "Delete"

\* C23 as stated: the ttlCleaner holds s.ttlMutex in no mode at any moment at which
\* it is inside a call of s.Delete.
C23_NoTTLLockInDelete ==
    ReaperInDelete => "reaper" \notin Holders("ttlMutex")

\* C23, amended: the ttlCleaner holds s.ttlMutex shared only inside the scan of
\* cleanExpiredKeys, never inside a call of s.Delete; it enters each Delete holding
\* no lock at all, and inside Delete it holds s.ttlMutex only exclusively, between
\* Delete's own s.ttlMutex.Lock() and s.ttlMutex.Unlock().
C23_NoScanLockInDelete ==
    /\ "reaper" \in locks["ttlMutex"].readers
           => Running("reaper") /\ At("reaper").fn = "cleanExpiredKeys"
    /\ ReaperInDelete =>
           /\ "reaper" \notin locks["ttlMutex"].readers
           /\ (At("reaper").op \in {"Lock", "Acquire"} /\ At("reaper").lock = "mutex")
                  => \A m \in LockNames : "reaper" \notin Holders(m)
           /\ locks["ttlMutex"].writer = "reaper"
                  => At("reaper").lock = "ttlMutex" /\ At("reaper").op \in {"delete", "Unlock"}

\* the ttlCleaner, past the scan of a tick that collected a key, is inside Delete
\* at delete(s.ttlData, key), under Delete's s.ttlMutex.Lock()
C23_Witness ==
    /\ ReaperInDelete /\ At("reaper").op = "delete"
    /\ locks["ttlMutex"].writer = "reaper"
    /\ locks["mutex"].writer = "reaper"

\* thread t has called Lock() or RLock() of mutex m, or is about to
Requesting(t, m) ==
    Running(t) /\ At(t).op \in {"Lock", "Acquire", "RLock"} /\ At(t).lock = m

\* the mutexes thread t holds
Held(t) == {m \in LockNames : t \in Holders(m)}

\* C24: lock order and freedom from deadlock.  A thread asks for s.mutex holding
\* nothing, and for no mutex while it holds s.ttlMutex or the one it asks for; it
\* never holds the engine's mutex and s.ttlMutex together, so that a thread with
\* more than one mutex holds s.mutex, taken first, and one of the other two; and
\* the threads inside an operation are never all waiting for a mutex.
C24_LockOrder ==
    /\ \A t \in Threads :
           /\ Requesting(t, "mutex") => Held(t) = {}
           /\ \A m \in LockNames :
                  Requesting(t, m) => "ttlMutex" \notin Held(t) /\ m \notin Held(t)
           /\ ~({"data.mutex", "ttlMutex"} \subseteq Held(t))
           /\ Cardinality(Held(t)) > 1 => "mutex" \in Held(t)
    /\ (\E t \in Threads : Running(t))
           => \E t \in Threads : Running(t) /\ ~Blocked(t)

\* a Set, SetWithTTL or Delete holds s.mutex and s.ttlMutex while a reading
\* caller waits for s.mutex
C24_Witness ==
    /\ \E t \in Threads \ {Reader} : Held(t) = {"mutex", "ttlMutex"}
    /\ Blocked(Reader) /\ At(Reader).lock = "mutex"

\* the keys of the calls of s.data.Delete in a sequence of calls, in their order
DeleteKeys(p) == SelectSeq(p, LAMBDA i : i.op = "Delete")

\* C25: what the ttlCleaner deletes on a tick.  The scan of cleanExpiredKeys leaves
\* the ttlCleaner with one call of s.Delete for each key whose entry in s.ttlData,
\* as the scan reads it, is before the now the tick read, and with no other call;
\* every Delete the ttlCleaner begins is the Delete a caller calls; it deletes from
\* the skip list under s.mutex.Lock() and the engine's lock, and clears the TTL
\* entry under s.mutex.Lock() and s.ttlMutex.Lock().
C25_ReaperDeletesExpired ==
    /\ [][RangeStep =>
            LET calls == DeleteKeys(prog'["reaper"])
            IN  /\ {calls[i].key : i \in DOMAIN calls}
                       = {k \in DOMAIN ttlData : ttlData[k] < At("reaper").num}
                /\ \A i, j \in DOMAIN calls : calls[i].key = calls[j].key => i = j
                /\ Len(prog'["reaper"]) = 1 + Len(calls) * Len(DeleteProgram(KeyA))]_vars
    /\ []((Running("reaper") /\ At("reaper") = I("Lock", "mutex", "Delete")) =>
              \E k \in AllKeys :
                  /\ DeleteProgram(k) \in Programs(Writer)
                  /\ Len(prog["reaper"]) >= Len(DeleteProgram(k))
                  /\ SubSeq(prog["reaper"], 1, Len(DeleteProgram(k))) = DeleteProgram(k))
    /\ [][DeleteStep("reaper") =>
            /\ locks["mutex"].writer = "reaper" /\ locks["data.mutex"].writer = "reaper"
            /\ At("reaper").key \notin Members(data')]_vars
    /\ [][TTLDeleteStep("reaper") =>
            /\ locks["mutex"].writer = "reaper" /\ locks["ttlMutex"].writer = "reaper"
            /\ At("reaper").key \notin DOMAIN ttlData']_vars

\* the ttlCleaner is at s.data.Delete for a key that is in the skip list and whose
\* entry was before the now of the tick
C25_Witness ==
    /\ ReaperInDelete /\ At("reaper").op = "Delete"
    /\ At("reaper").key \in Members(data)
    /\ At("reaper").key \in DOMAIN ttlData /\ ttlData[At("reaper").key] < now

\* the level-i chain from the head
LevelChain(sl, i) == Chain(sl.elems, sl.elems[HEAD].Next[i + 1], i)

\* the elements of a chain
Elements(chain) == {chain[n] : n \in 1..Len(chain)}

\* the height an element was created with: len(e.Next)
Height(sl, e) == Len(sl.elems[e].Next)

\* C26: multi-level invariant.  After any sequence of Insert and Delete calls, the
\* chain of every level below the list's level is strictly increasing in
\* (score, key), every element of the chain of a level above 0 is on the chain of
\* the level below, and an element created with height h is on the chains of the
\* levels 0..h-1 and on no other (of no level up to MaxLevel).
C26_MultiLevel ==
    /\ \A i \in 0..(data.level - 1) :
           LET chain == LevelChain(data, i)
           IN  /\ \A n \in 1..(Len(chain) - 1) :
                      Ascending(data.elems[chain[n]], data.elems[chain[n + 1]])
               /\ i > 0 => Elements(chain) \subseteq Elements(LevelChain(data, i - 1))
    /\ \A i \in 0..(MaxLevel - 1) :
           Elements(LevelChain(data, i))
               = {e \in (DOMAIN data.elems) \ {HEAD} : i < Height(data, e)}

\* a list of level 3 with an element of each of the heights 1, 2 and 3, the one of
\* height 1 between the other two
C26_Witness ==
    /\ data.level = 3
    /\ \E n \in 1..(Len(Level0(data)) - 2) :
           /\ Height(data, Level0(data)[n]) > 1
           /\ Height(data, Level0(data)[n + 1]) = 1
           /\ Height(data, Level0(data)[n + 2]) > 1
           /\ Height(data, Level0(data)[n]) # Height(data, Level0(data)[n + 2])

\* C29: level tightness.  After any sequence of Insert and Delete calls the level of
\* the list is between 1 and MaxLevel, every forward link of the head at an index
\* from the level on is nil, and the level is 1 or the head's forward link at index
\* level-1 is not nil.
C29_LevelTight ==
    /\ data.level \in 1..MaxLevel
    /\ Len(data.elems[HEAD].Next) = MaxLevel
    /\ \A i \in data.level..(MaxLevel - 1) : data.elems[HEAD].Next[i + 1] = NIL
    /\ data.level = 1 \/ data.elems[HEAD].Next[data.level] # NIL

\* a Delete has just removed an element, and the list that is left, of two
\* elements or more, has level 2: the head has a link at index 1 and none above
C29_Witness ==
    /\ arg["c1"].result
    /\ data.level = 2
    /\ data.elems[HEAD].Next[2] # NIL
    /\ data.length >= 2

\* C27: Insert of a (score, key) that is in the list.  The call sets the value of
\* the element of that (score, key) and returns that element; the length, the
\* level and the tail of the list, the set of its elements, and the key, the score, the forward links and the backward link
\* of every element, the head among them, are as before, and so is the value of
\* every other element.
C27_InsertExisting ==
    [][(arg'["c1"].op = "Insert" /\ arg'["c1"].found) =>
          LET key   == arg'["c1"].key
              score == arg'["c1"].score
              value == arg'["c1"].value
              x     == <<score, key>>
          IN  /\ arg'["c1"].elem = x
              /\ data'.length = data.length
              /\ data'.level = data.level
              /\ data'.tail = data.tail
              /\ DOMAIN data'.elems = DOMAIN data.elems
              /\ \A e \in DOMAIN data.elems :
                     /\ data'.elems[e].Key = data.elems[e].Key
                     /\ data'.elems[e].Score = data.elems[e].Score
                     /\ data'.elems[e].Next = data.elems[e].Next
                     /\ data'.elems[e].Prev = data.elems[e].Prev
                     /\ data'.elems[e].Value
                            = IF e = x THEN value ELSE data.elems[e].Value]_vars

\* an Insert has just set the value of an element that was in the list to "v2", in
\* a list of three elements and of a level above 1
C27_Witness ==
    /\ ops > 0
    /\ arg["c1"].op = "Insert" /\ arg["c1"].found /\ arg["c1"].value = "v2"
    /\ data.elems[<<arg["c1"].score, arg["c1"].key>>].Value = "v2"
    /\ data.length = 3 /\ data.level > 1

\* C28: Delete of a (score, key) that is in the list.  The call returns true; on
\* every level the chain after the call is the chain before it without the element
\* of that (score, key): the element is on no chain, every other element is on the
\* chains it was on, in the order it was in; and the key, the score and the value
\* of every other element are as before.
C28_DeletePresent ==
    [][(arg'["c1"].op = "Delete" /\ arg'["c1"].found) =>
          LET x == <<arg'["c1"].score, arg'["c1"].key>>
          IN  /\ arg'["c1"].result
              /\ \A i \in 0..(MaxLevel - 1) :
                     LevelChain(data', i)
                         = SelectSeq(LevelChain(data, i), LAMBDA e : e # x)
              /\ x \notin Elements(Level0(data'))
              /\ \A e \in Elements(Level0(data')) :
                     /\ data'.elems[e].Key = data.elems[e].Key
                     /\ data'.elems[e].Score = data.elems[e].Score
                     /\ data'.elems[e].Value = data.elems[e].Value]_vars

\* a Delete has just removed an element and returned true, and the list that is
\* left has an element before and an element after the place of the removed one,
\* and a level above 1
C28_Witness ==
    /\ ops > 0
    /\ arg["c1"].op = "Delete" /\ arg["c1"].result
    /\ data.level > 1
    /\ \E n \in 1..(Len(Level0(data)) - 1) :
           /\ Precedes(data.elems[Level0(data)[n]], arg["c1"].key, arg["c1"].score)
           /\ ~Precedes(data.elems[Level0(data)[n + 1]], arg["c1"].key, arg["c1"].score)

\* C30: Search.  In every list that Insert and Delete calls lead to, Search of a
\* (key, score) returns the element whose score and key are these when the list has
\* it, and nil when it has not, an element of the same key and another score
\* notwithstanding; and a call of Search leaves the list as it is.
C30_Search ==
    /\ [](\A k \in AllKeys, s \in EngineScores :
              LET x == Search(data, k, s)
              IN  IF Present(data, k, s)
                  THEN x # NIL /\ data.elems[x].Key = k /\ data.elems[x].Score = s
                  ELSE x = NIL)
    /\ [][arg'["c1"].op = "Search" =>
              /\ data' = data
              /\ arg'["c1"].elem = IF arg'["c1"].found
                                   THEN <<arg'["c1"].score, arg'["c1"].key>> ELSE NIL]_vars

\* a Search has just returned nil for a key that the list has under another score
\* only, next to an element of the score searched for
C30_Witness ==
    /\ ops > 0
    /\ arg["c1"].op = "Search" /\ ~arg["c1"].found
    /\ \E e \in Elements(Level0(data)) :
           data.elems[e].Key = arg["c1"].key /\ data.elems[e].Score # arg["c1"].score
    /\ \E e \in Elements(Level0(data)) :
           data.elems[e].Key # arg["c1"].key /\ data.elems[e].Score = arg["c1"].score

\* the elements of a chain whose score is between two scores, in the order of the chain
Between(sl, chain, minScore, maxScore) ==
    SelectSeq(chain, LAMBDA e : /\ ScoreLeq(minScore, sl.elems[e].Score)
                                /\ ScoreLeq(sl.elems[e].Score, maxScore))

\* C31: Range.  A call of Range(min, max, limit) returns the elements of the list
\* with min <= score <= max in ascending (score, key) order: all of them when
\* limit <= 0, the first limit of them (all, when they are fewer) when limit > 0;
\* none when min > max or the list is empty; and it leaves the list as it is.
C31_Range ==
    [][arg'["c1"].op = "Range" =>
          LET a    == arg'["c1"]
              all  == Between(data, Level0(data), a.minScore, a.maxScore)
              want == IF a.limit > 0 /\ Len(all) > a.limit
                      THEN SubSeq(all, 1, a.limit) ELSE all
          IN  /\ a.elems = want
              /\ \A n \in 1..(Len(a.elems) - 1) :
                     Ascending(data.elems[a.elems[n]], data.elems[a.elems[n + 1]])
              /\ (ScoreLess(a.maxScore, a.minScore) \/ Level0(data) = <<>>)
                     => a.elems = <<>>
              /\ data' = data]_vars

\* a Range with limit 2 has just returned the first two of three elements in its
\* range, in a list with an element of a score above the range
C31_Witness ==
    /\ ops > 0
    /\ arg["c1"].op = "Range" /\ arg["c1"].limit = 2
    /\ Len(arg["c1"].elems) = 2
    /\ Len(Between(data, Level0(data), arg["c1"].minScore, arg["c1"].maxScore)) = 3

\* C32: First and Last.  After any sequence of Insert and Delete calls, First() and
\* Last() are nil when the list has no element and not otherwise; First() is the
\* first and Last(), the stored tail, the last element of the level-0 chain, and
\* every other element is after First() and before Last() in (score, key).
C32_FirstLast ==
    LET chain == Level0(data)
    IN  /\ (chain = <<>>) <=> (First(data) = NIL)
        /\ (chain = <<>>) <=> (Last(data) = NIL)
        /\ chain # <<>> =>
               /\ First(data) = chain[1]
               /\ Last(data) = chain[Len(chain)]
               /\ \A e \in Elements(chain) :
                      /\ e # First(data)
                             => Ascending(data.elems[First(data)], data.elems[e])
                      /\ e # Last(data)
                             => Ascending(data.elems[e], data.elems[Last(data)])

\* a Delete of KeyB has just removed the last element of a list, the one with
\* KeyB under the greater score (the one under the lesser score is still there), and
\* the element before it is the tail
C32_Witness ==
    /\ arg["c1"].result /\ arg["c1"].key = KeyB
    /\ ScoreLess(scores[KeyB], scores[KeyA])
    /\ <<scores[KeyB], KeyB>> \in Elements(Level0(data))
    /\ Last(data) = <<scores[KeyA], KeyA>>
    /\ data.length >= 2

RECURSIVE BackChain(_, _)
\* the elements met by following Prev links from x
BackChain(elems, x) ==
    IF x = NIL THEN <<>> ELSE <<x>> \o BackChain(elems, elems[x].Prev)

\* a sequence back to front
Reverse(seq) == [n \in 1..Len(seq) |-> seq[Len(seq) + 1 - n]]

\* C33: level-0 double linking.  After any sequence of Insert and Delete calls, the
\* Prev of the level-0 successor of an element is that element; the Prev of the
\* first element is nil, and not the head; and the Prev links from the tail lead
\* through the level-0 chain back to front.
C33_DoubleLinks ==
    LET chain == Level0(data)
    IN  /\ \A n \in 1..(Len(chain) - 1) : data.elems[chain[n + 1]].Prev = chain[n]
        /\ chain # <<>> => data.elems[chain[1]].Prev = NIL
        /\ \A e \in Elements(chain) : data.elems[e].Prev # HEAD
        /\ BackChain(data.elems, data.tail) = Reverse(chain)

\* a Delete of KeyA has just removed the element with KeyA under the greater score
\* (the one under the lesser score is still there) from between two elements with
\* KeyB, and the Prev of the one after it is the one before it
C33_Witness ==
    /\ arg["c1"].result /\ arg["c1"].key = KeyA
    /\ ScoreLess(scores[KeyB], scores[KeyA])
    /\ <<scores[KeyB], KeyA>> \in Elements(Level0(data))
    /\ <<scores[KeyB], KeyB>> \in Elements(Level0(data))
    /\ <<scores[KeyA], KeyB>> \in Elements(Level0(data))
    /\ data.elems[<<scores[KeyA], KeyB>>].Prev = <<scores[KeyB], KeyB>>

\* C39: count invariant.  After any sequence of Insert and Delete calls the length
\* the list keeps, which Length() returns, is the number of elements on the
\* level-0 chain, and is not negative; a call adds one to it when it is an Insert
\* of a (score, key) the list had not, takes one from it when it is a Delete that
\* returns true, and leaves it as it is otherwise.
C39_Count ==
    /\ [](Length(data) = Len(Level0(data)) /\ Length(data) >= 0)
    /\ [][Length(data') - Length(data)
              = IF arg'["c1"].op = "Insert" /\ ~arg'["c1"].found THEN 1
                ELSE IF arg'["c1"].op = "Delete" /\ arg'["c1"].result THEN 0 - 1
                ELSE 0]_vars

\* a Delete has just returned true and left two elements of the three that the
\* three calls before it, Inserts of a (score, key) the list had not, had put in
C39_Witness ==
    /\ ops = 4
    /\ arg["c1"].op = "Delete" /\ arg["c1"].result
    /\ Length(data) = 2

\* C34: tie-break on equal scores.  Elements of one score and different keys are in
\* the list together, the one of the lesser key (byte by byte) first.  A call of
\* Insert, Search or Delete for a (score, key) leaves every element of that score
\* and another key in the list with its value, and does not return it; when the
\* list has the element of (score, key) beside it, Insert sets the value of that
\* element and returns it, Search returns it, and Delete removes it and returns true.
C34_TieBreak ==
    /\ [](LET chain == Level0(data)
          IN  \A n \in 1..(Len(chain) - 1) :
                  data.elems[chain[n]].Score = data.elems[chain[n + 1]].Score
                      => SeqLess(data.elems[chain[n]].Key, data.elems[chain[n + 1]].Key, 1))
    /\ [][arg'["c1"].op \in {"Insert", "Search", "Delete"} =>
              LET a == arg'["c1"]
                  x == <<a.score, a.key>>
              IN  \A k \in AllKeys \ {a.key} :
                      LET o == <<a.score, k>>
                      IN  o \in Elements(Level0(data)) =>
                              /\ o \in Elements(Level0(data'))
                              /\ data'.elems[o].Value = data.elems[o].Value
                              /\ a.elem # o
                              /\ a.found =>
                                     /\ a.op = "Insert" =>
                                            a.elem = x /\ data'.elems[x].Value = a.value
                                     /\ a.op = "Search" => a.elem = x
                                     /\ a.op = "Delete" =>
                                            a.result /\ x \notin Elements(Level0(data'))]_vars

\* a Delete for KeyB and a score has just removed its element, and the element of
\* KeyA and that score, which was before it, is in the list
C34_Witness ==
    /\ ops > 0
    /\ arg["c1"].op = "Delete" /\ arg["c1"].result /\ arg["c1"].key = KeyB
    /\ <<arg["c1"].score, KeyA>> \in Elements(Level0(data))

\* C35: TTL validation.  Once a caller's SetWithTTL(k, v, d) with d <= 0 has
\* returned and no caller write on k has begun since, the store does not hold an
\* element of k together with a TTL entry of k at or before the time of the call.
C35_TTLValidated ==
    \A k \in AllKeys :
        (last[k].op = "SetWithTTL" /\ last[k].ttl <= 0) =>
            ~(/\ k \in Members(data)
              /\ k \in DOMAIN ttlData
              /\ ttlData[k] <= last[k].expiry - last[k].ttl)

\* C37: liveness agreement.  At every instant, for every key with a TTL entry, the
\* tests of Get, of Keys, Scan and SizeActive, of GetTTL and of cleanExpiredKeys
\* take the key for expired together or for live together; and while no write
\* holds s.mutex, Get of the key returns found exactly when Keys() has the key.
C37_LivenessAgreement ==
    \A k \in DOMAIN ttlData :
        /\ GetExpired(k) <=> ~Live(k)
        /\ GetExpired(k) <=> ~GetTTLResult(k).present
        /\ GetExpired(k) <=> (ttlData[k] < now)
        /\ Unlocked => (GetResult(k).found <=> k \in Elements(KeysResult))

(***************************************************************************)
(* The engine at its ceiling: the calls of SpecCalls and of SpecRange,     *)
(* with draws of randomLevel whose coins come up heads more than MaxLevel  *)
(* times running, and one value for every Insert.                          *)
(***************************************************************************)
\* the outcomes of the coin flips of one randomLevel call: tails at once, or heads
\* MaxLevel + 2 times running
CeilingCoins == {<<FALSE>>, [i \in 1..(MaxLevel + 2) |-> TRUE]}

\* the calls of one run at the ceiling
MaxCeilingCalls == 3

NextCeiling ==
    /\ ops < MaxCeilingCalls
    /\ \/ \E k \in AllKeys, s \in EngineScores, c \in CeilingCoins :
              InsertCall(k, "v1", s, c)
       \/ \E k \in AllKeys, s \in EngineScores : DeleteCall(k, s)
       \/ \E k \in AllKeys, s \in EngineScores : SearchCall(k, s)
       \/ \E lo \in EngineScores, hi \in EngineScores, n \in RangeLimits : RangeCall(lo, hi, n)

SpecCeiling == Init /\ [][NextCeiling]_vars

\* C36: level ceiling.  The height randomLevel draws is always in 1..MaxLevel,
\* whatever the coins; the list's level is in 1..MaxLevel; and every index the walks
\* of Insert, Delete, Search and Range use is in range: the head has MaxLevel
\* forward links, every element has 1..MaxLevel of them, every element the chain
\* of a level i below the list's level reaches has a forward link of index i, and
\* the update vector has the MaxLevel entries 0..MaxLevel-1.
C36_LevelCeiling ==
    /\ \A c \in CeilingCoins : randomLevel(1, c) \in 1..MaxLevel
    /\ data.level \in 1..MaxLevel
    /\ Height(data, HEAD) = MaxLevel
    /\ \A e \in DOMAIN data.elems : Height(data, e) \in 1..MaxLevel
    /\ \A i \in 0..(data.level - 1) :
           \A e \in Elements(LevelChain(data, i)) : i + 1 \in DOMAIN data.elems[e].Next
    /\ \A k \in AllKeys, s \in EngineScores :
           DOMAIN Locate(data, k, s).update = 1..MaxLevel

\* a draw that reached the ceiling: the list's level is MaxLevel, an element of
\* height MaxLevel is on the chain of the level MaxLevel - 1, and a call has run
\* on that list
C36_Witness ==
    /\ ops > 1
    /\ data.level = MaxLevel
    /\ \E e \in Elements(LevelChain(data, MaxLevel - 1)) : Height(data, e) = MaxLevel
    /\ arg["c1"].op \in {"Search", "Range", "Delete"}

\* thread t is in the loop of Keys, Scan or SizeActive over the level-0 links:
\* s.data.First() has returned and released the engine's lock, s.mutex.RUnlock()
\* is still to come
InWalk(t) ==
    /\ Running(t)
    /\ At(t).fn \in {"Keys", "Scan", "SizeActive"}
    /\ t \in locks["mutex"].readers
    /\ t \notin locks["data.mutex"].readers
    /\ At(t).lock = "ttlMutex" \/ At(t) = I("RUnlock", "mutex", At(t).fn)

\* thread t is in SkipList.Insert or SkipList.Delete: from the call of
\* sl.mutex.Lock() to the return of sl.mutex.Unlock()
InEngineWrite(t) ==
    /\ Running(t)
    /\ At(t).lock = "data.mutex"
    /\ At(t).op \in {"Lock", "Acquire", "Insert", "Delete", "Unlock"}

\* C38: traversal exclusion.  A thread in Insert or Delete of the skip list holds
\* s.mutex as its writer; so while Keys, Scan or SizeActive follows the level-0
\* links, after First() released the engine's lock, no thread is in Insert or
\* Delete of the skip list and nobody holds the engine's lock for writing.
C38_TraversalExclusion ==
    /\ \A u \in Threads : InEngineWrite(u) => locks["mutex"].writer = u
    /\ \A t \in Threads :
           InWalk(t) =>
               /\ \A u \in Threads : ~InEngineWrite(u)
               /\ locks["data.mutex"].writer = NoThread

\* a caller is in the loop over a list that has an element, between two lookups of
\* the TTL table, while a Delete waits in s.mutex.Lock()
C38_Witness ==
    \E t \in Callers, u \in Threads :
        /\ InWalk(t) /\ At(t).lock = "ttlMutex"
        /\ Len(Level0(data)) > 0
        /\ Running(u) /\ At(u) = I("Acquire", "mutex", "Delete")

\* what a store of the skip list sl and the TTL table ttl holds for key k: whether
\* the skip list has its element, the element's value, whether the TTL table has
\* its entry, and the entry
EntryOf(sl, ttl, k) ==
    LET x == Search(sl, k, scores[k])
    IN  <<x # NIL, IF x # NIL THEN sl.elems[x].Value ELSE "",
          k \in DOMAIN ttl, IF k \in DOMAIN ttl THEN ttl[k] ELSE 0>>

\* the step is one of a Set, SetWithTTL or Delete on key k (of a caller, of the
\* ttlCleaner or of a lazy delete): its engine call, or its write of the TTL table
WriteStepOn(k) ==
    \E t \in Threads :
        \/ /\ pc[t] = "idle" /\ pc'[t] \in {"SetTTL", "SetWithTTLTTL", "DeleteTTL"}
           /\ arg'[t].key = k
        \/ /\ pc[t] \in {"SetTTL", "SetWithTTLTTL", "DeleteTTL"} /\ pc'[t] = "idle"
           /\ arg[t].key = k

\* C40: per-key frame.  A step changes the presence, the value or the TTL entry of
\* a key k only if it is a step of a Set, SetWithTTL or Delete on k itself, be it a
\* caller's, the ttlCleaner's or a lazy delete's: a write on one key leaves every
\* other key as it was; and a step of no write (a Get that starts a lazy delete
\* is one) changes neither the skip list nor the TTL table.
C40_Frame ==
    [][\/ data' = data /\ ttlData' = ttlData
       \/ /\ pc' # pc
          /\ \A k \in AllKeys :
                 (EntryOf(data', ttlData', k) # EntryOf(data, ttlData, k)) => WriteStepOn(k)]_vars

\* a Delete on one key has returned true, and the other key still has its element
\* and its TTL entry
C40_Witness ==
    /\ last[KeyA].op = "Delete" /\ last[KeyA].ok
    /\ KeyB \in Members(data) /\ KeyB \in DOMAIN ttlData

====
